---- MODULE Spec2Model ----
(***************************************************************************)
(* smart-snap-feast: the AI orchestration and recipe-normalisation layer.  *)
(*                                                                         *)
(*   OpenAIService  (src/src/services/openai.ts, the Groq-backed variant   *)
(*                   starting at line 477): throttle, makeRequest,         *)
(*                   generateRecipe, the tip generators                    *)
(*   AIService      (same file, from line 1190): generateRecipe,           *)
(*                   generateRecipeImage, getRecipeEnhancements,           *)
(*                   formatRecipe and its validators                       *)
(*                                                                         *)
(* Strings are TLA+ strings; an emoji of the source is written as its code *)
(* point, "(U+1F511)" for the key emoji, so that the source's substring    *)
(* tests on messages are computed on the same text.                        *)
(***************************************************************************)
EXTENDS Integers, Sequences, FiniteSets, TLC

(***************************************************************************)
(* Bounds of the model.                                                    *)
(***************************************************************************)
NumCalls == 3         \* concurrent makeRequest calls in SpecThrottle
TickStep == 1000      \* milliseconds the clock advances in one Tick
MaxElapsed == 3000    \* the clock stops advancing this long after Epoch
Epoch == 10000        \* Date.now() when the page loads
MaxRuns == 2          \* generateRecipe calls made one after the other

Calls == 1..NumCalls

(***************************************************************************)
(* String helpers: String.prototype.includes / toLowerCase / trim /        *)
(* startsWith / indexOf / lastIndexOf / replace as the source uses them.   *)
(***************************************************************************)
Includes(str, kw) ==
    \E i \in 1..(Len(str) + 1 - Len(kw)) : SubSeq(str, i, i + Len(kw) - 1) = kw

StartsWith(str, prefix) ==
    Len(str) >= Len(prefix) /\ SubSeq(str, 1, Len(prefix)) = prefix

UpperLetters == "ABCDEFGHIJKLMNOPQRSTUVWXYZ"
LowerLetters == "abcdefghijklmnopqrstuvwxyz"

LowerChar(c) ==
    IF \E k \in 1..Len(UpperLetters) : SubSeq(UpperLetters, k, k) = c
    THEN LET k == CHOOSE j \in 1..Len(UpperLetters) : SubSeq(UpperLetters, j, j) = c
         IN  SubSeq(LowerLetters, k, k)
    ELSE c

\* Character by character, halving the string.
RECURSIVE toLowerCase(_)
toLowerCase(str) ==
    IF Len(str) = 0 THEN ""
    ELSE IF Len(str) = 1 THEN LowerChar(str)
    ELSE LET half == Len(str) \div 2
         IN  toLowerCase(SubSeq(str, 1, half))
                \o toLowerCase(SubSeq(str, half + 1, Len(str)))

IsSpace(c) == c \in {" ", "\n", "\t", "\r"}

SetMin(S) == CHOOSE x \in S : \A y \in S : x <= y
SetMax(S) == CHOOSE x \in S : \A y \in S : x >= y

NonSpacePositions(str) == {i \in 1..Len(str) : ~IsSpace(SubSeq(str, i, i))}

TrimStart(str) ==
    IF NonSpacePositions(str) = {} THEN ""
    ELSE SubSeq(str, SetMin(NonSpacePositions(str)), Len(str))

TrimEnd(str) ==
    IF NonSpacePositions(str) = {} THEN ""
    ELSE SubSeq(str, 1, SetMax(NonSpacePositions(str)))

Trim(str) == TrimEnd(TrimStart(str))

\* indexOf / lastIndexOf, 1-based; 0 stands for the source's -1.
Occurrences(str, kw) ==
    {i \in 1..(Len(str) + 1 - Len(kw)) : SubSeq(str, i, i + Len(kw) - 1) = kw}

IndexOf(str, kw) ==
    IF Occurrences(str, kw) = {} THEN 0 ELSE SetMin(Occurrences(str, kw))

LastIndexOf(str, kw) ==
    IF Occurrences(str, kw) = {} THEN 0 ELSE SetMax(Occurrences(str, kw))

\* str.replace(/<marker>\s*/g, ''): every occurrence of the marker goes, left
\* to right, with the white space that follows it.
RECURSIVE RemoveAllWithSpace(_, _)
RemoveAllWithSpace(str, marker) ==
    LET at == IndexOf(str, marker)
    IN  IF at = 0 THEN str
        ELSE SubSeq(str, 1, at - 1)
                \o RemoveAllWithSpace(
                       TrimStart(SubSeq(str, at + Len(marker), Len(str))), marker)

\* str.replace(/^<marker>\s*/g, ''): the marker at the very start only.
RemoveLeadingWithSpace(str, marker) ==
    IF StartsWith(str, marker)
    THEN TrimStart(SubSeq(str, Len(marker) + 1, Len(str)))
    ELSE str

\* The absent value of a string-valued field (JavaScript's undefined).
Undefined == "<undefined>"

\* JavaScript truthiness of a string-or-undefined value.
Truthy(v) == v # Undefined /\ v # ""

(***************************************************************************)
(* Error messages, verbatim from the source.                               *)
(***************************************************************************)
MsgNotConfigured ==
    "(U+1F511) Groq API key not configured. Please add GROQ_API_KEY to your .env file."
MsgStatus401 == "(U+1F510) Invalid Groq API key. Please check your GROQ_API_KEY."
MsgStatus429 == "(U+23F3) Groq rate limit reached. Please wait a moment and try again."
MsgStatus5xx ==
    "(U+1F527) Groq service temporarily unavailable. Try again in a few minutes."
MsgStatusOtherPrefix == "(U+1F916) Groq Error: "
MsgEmptyResponse == "(U+1F916) Groq returned empty response. Please try again."
MsgFetchFailed == "Failed to fetch"
MsgClientNoIngredients == "(U+1F955) Please add some ingredients to generate a recipe!"
MsgInvalidFormat == "(U+1F527) Invalid response format from Groq. Please try again."
MsgIncompleteRecipe == "(U+1F4DD) Incomplete recipe generated. Please try again."
MsgFormatError == "(U+1F527) Groq response format error. Please try generating again."
MsgClientGeneric ==
    "(U+1F373) Failed to generate recipe. Please check your internet connection and try again."
KeyEmoji == "(U+1F511)"

MsgAddIngredients == "Please add some ingredients to generate a recipe."
MsgOrchIncomplete == "(U+1F916) ChatGPT generated an incomplete recipe. Please try again."
MsgMissingTitle == "(U+1F4DD) Recipe missing title - please try generating again."
MsgMissingIngredients == "(U+1F955) Recipe missing ingredients - please try generating again."
MsgMissingInstructions == "(U+1F4CB) Recipe missing instructions - please try generating again."
MsgUserNotConfigured ==
    "(U+1F511) ChatGPT API not configured. Please add your OpenAI API key to the .env file."
MsgUserRateLimited ==
    "(U+23F3) Too many requests to ChatGPT. Please wait 30 seconds and try again."
MsgUserInvalidKey ==
    "(U+1F510) Invalid ChatGPT API key. Please check your VITE_OPENAI_API_KEY in .env file."
MsgUserConnection == "(U+1F310) Connection error. Please check your internet and try again."
MsgUserIncomplete == "(U+1F916) ChatGPT returned incomplete response. Please try again."
MsgGenericPrefix == "Recipe generation failed: "
NoError == ""

(***************************************************************************)
(* State.                                                                  *)
(***************************************************************************)
VARIABLES
    now,              \* Date.now()
    apiKey,           \* OpenAIService.apiKey, read from the environment
    lastRequestTime,  \* OpenAIService.lastRequestTime
    mr,               \* the makeRequest calls: position, timer, outcome
    issued,           \* the times at which fetch was called, in order
    runs,             \* AIService calls started so far
    gen,              \* the AIService.generateRecipe call in progress
    tips,             \* the tips panel's getRecipeEnhancements call
    asyncCall,        \* the AIService.generateRecipeWithAsyncImage call in progress
    fmt,              \* a formatter function's input and its output
    ui                \* the state of the React hook or component under study

throttleVars == <<now, apiKey, lastRequestTime, mr, issued>>
recipeVars == <<runs, gen>>

vars == <<now, apiKey, lastRequestTime, mr, issued, runs, gen, tips, asyncCall, fmt, ui>>

(***************************************************************************)
(* OpenAIService: configuration and throttle.                              *)
(***************************************************************************)
rateLimitDelay == 2000

ApiKeys == {"", "sk-live", "gsk_live"}

isConfigured == Truthy(apiKey) /\ StartsWith(apiKey, "gsk_")

getErrorMessage(status, message) ==
    CASE status = 401 -> MsgStatus401
      [] status = 429 -> MsgStatus429
      [] status \in {500, 502, 503} -> MsgStatus5xx
      [] OTHER -> MsgStatusOtherPrefix \o
                  (IF Truthy(message) THEN message ELSE "Unknown error occurred")

IdleRequest ==
    [pc |-> "idle", wakeAt |-> 0, status |-> 0, content |-> "", error |-> NoError]

timeSinceLastRequest == now - lastRequestTime

\* makeRequest passing through waitForRateLimit before it checks the
\* configuration.
MakeRequestThrottlesFirst(c) ==
    /\ mr[c].pc = "idle"
    /\ IF now - lastRequestTime < rateLimitDelay
       THEN /\ mr' = [mr EXCEPT ![c] = [@ EXCEPT
                        !.pc = "sleeping",
                        !.wakeAt = now + (rateLimitDelay - (now - lastRequestTime))]]
            /\ UNCHANGED <<lastRequestTime, issued>>
       ELSE /\ lastRequestTime' = now
            /\ IF ~(Truthy(apiKey) /\ StartsWith(apiKey, "gsk_"))
               THEN /\ mr' = [mr EXCEPT ![c] = [@ EXCEPT !.pc = "threw",
                                                         !.error = MsgNotConfigured]]
                    /\ UNCHANGED issued
               ELSE /\ issued' = Append(issued, now)
                    /\ mr' = [mr EXCEPT ![c] = [@ EXCEPT !.pc = "fetching"]]
    /\ UNCHANGED <<now, apiKey>>

\* makeRequest up to its first suspension: the configuration check, then
\* waitForRateLimit, which either sets a timer or stamps lastRequestTime and
\* lets makeRequest call fetch.
MakeRequest(c) ==
    /\ mr[c].pc = "idle"
    /\ IF ~isConfigured
       THEN /\ mr' = [mr EXCEPT ![c] = [@ EXCEPT !.pc = "threw", !.error = MsgNotConfigured]]
            /\ UNCHANGED <<lastRequestTime, issued>>
       ELSE IF timeSinceLastRequest < rateLimitDelay
       THEN /\ mr' = [mr EXCEPT ![c] = [@ EXCEPT
                        !.pc = "sleeping",
                        !.wakeAt = now + (rateLimitDelay - timeSinceLastRequest)]]
            /\ UNCHANGED <<lastRequestTime, issued>>
       ELSE /\ lastRequestTime' = now
            /\ issued' = Append(issued, now)
            /\ mr' = [mr EXCEPT ![c] = [@ EXCEPT !.pc = "fetching"]]
    /\ UNCHANGED <<now, apiKey>>

\* The timer of waitForRateLimit fires (at or after its due time): the call
\* stamps lastRequestTime with the current time and calls fetch.
WaitForRateLimitResume(c) ==
    /\ mr[c].pc = "sleeping"
    /\ now >= mr[c].wakeAt
    /\ lastRequestTime' = now
    /\ issued' = Append(issued, now)
    /\ mr' = [mr EXCEPT ![c] = [@ EXCEPT !.pc = "fetching"]]
    /\ UNCHANGED <<now, apiKey>>

(***************************************************************************)
(* The text provider's answer to one fetch: a transport failure, a non-2xx *)
(* status with an optional error message, or a 2xx body whose              *)
(* choices[0]?.message.content is a text or is missing.                    *)
(***************************************************************************)
NetworkFailure == [kind |-> "neterr", status |-> 0, message |-> Undefined, content |-> Undefined]
HttpError(status, message) ==
    [kind |-> "http", status |-> status, message |-> message, content |-> Undefined]
HttpOk(content) == [kind |-> "http", status |-> 200, message |-> Undefined, content |-> content]

ResponseOk(resp) == resp.kind = "http" /\ resp.status >= 200 /\ resp.status <= 299

\* makeRequest from fetch's settlement to its own: the message it throws
\* (NoError when it returns the content).
MakeRequestError(resp) ==
    IF resp.kind = "neterr" THEN MsgFetchFailed
    ELSE IF ~ResponseOk(resp) THEN getErrorMessage(resp.status, resp.message)
    ELSE IF ~Truthy(resp.content) THEN MsgEmptyResponse
    ELSE NoError

FetchSettles(c, resp) ==
    /\ mr[c].pc = "fetching"
    /\ mr' = [mr EXCEPT ![c] =
                IF MakeRequestError(resp) = NoError
                THEN [@ EXCEPT !.pc = "returned", !.status = resp.status,
                               !.content = resp.content]
                ELSE [@ EXCEPT !.pc = "threw", !.status = resp.status,
                               !.error = MakeRequestError(resp)]]
    /\ UNCHANGED <<now, apiKey, lastRequestTime, issued>>

\* Time passes.
Tick ==
    /\ now < Epoch + MaxElapsed
    /\ now' = now + TickStep
    /\ UNCHANGED <<apiKey, lastRequestTime, mr, issued>>

(***************************************************************************)
(* Provider replies.  A parsed reply (RawProviderRecipe) is a record: a    *)
(* string field holds its text or Undefined, a number is held as the text  *)
(* String(value) yields, and `arrays` names the array fields the object    *)
(* has.  An ingredient entry is a bare string or an object.                *)
(***************************************************************************)
IngObj(name, quantity, unit) ==
    [isString |-> FALSE, name |-> name, quantity |-> quantity, unit |-> unit]
IngStr(name) ==
    [isString |-> TRUE, name |-> name, quantity |-> Undefined, unit |-> Undefined]

RawEmpty ==
    [title |-> Undefined, description |-> Undefined, image |-> Undefined,
     id |-> Undefined, cookTime |-> Undefined, difficulty |-> Undefined,
     servings |-> Undefined, arrays |-> {},
     ingredients |-> <<>>, instructions |-> <<>>, dietaryTags |-> <<>>]

DocBowl ==
    "{\"title\":\"Chicken Rice Bowl\",\"description\":\"Quick.\",\"cookTime\":25,\"difficulty\":\"easy\",\"servings\":2,\"ingredients\":[{\"name\":\"chicken stock\",\"quantity\":\"1\",\"unit\":\"cup\"},\"rice\"],\"instructions\":[\"Step 1: Boil rice\",\"Add stock\"]}"
RawBowl ==
    [RawEmpty EXCEPT !.title = "Chicken Rice Bowl", !.description = "Quick.",
        !.cookTime = "25", !.difficulty = "easy", !.servings = "2",
        !.arrays = {"ingredients", "instructions"},
        !.ingredients = <<IngObj("chicken stock", "1", "cup"), IngStr("rice")>>,
        !.instructions = <<"Step 1: Boil rice", "Add stock">>]

DocToast ==
    "{\"title\":\"Toast\",\"description\":\"Crisp.\",\"image\":\"https://img.example/toast.png\",\"ingredients\":[\"bread\"],\"instructions\":[\"Toast it\"],\"dietaryTags\":[\"vegan\"]}"
RawToast ==
    [RawEmpty EXCEPT !.title = "Toast", !.description = "Crisp.",
        !.image = "https://img.example/toast.png",
        !.arrays = {"ingredients", "instructions", "dietaryTags"},
        !.ingredients = <<IngStr("bread")>>,
        !.instructions = <<"Toast it">>, !.dietaryTags = <<"vegan">>]

DocNoTitle ==
    "{\"description\":\"Warm.\",\"ingredients\":[\"water\"],\"instructions\":[\"Boil\"]}"
RawNoTitle ==
    [RawEmpty EXCEPT !.description = "Warm.",
        !.arrays = {"ingredients", "instructions"},
        !.ingredients = <<IngStr("water")>>, !.instructions = <<"Boil">>]

DocBlankTitle ==
    "{\"title\":\"  \",\"description\":\"Warm.\",\"ingredients\":[\"water\"],\"instructions\":[\"Boil\"]}"
RawBlankTitle == [RawNoTitle EXCEPT !.title = "  "]

DocNoIngredients ==
    "{\"title\":\"Soup\",\"description\":\"Warm.\",\"ingredients\":[],\"instructions\":[\"Boil\"]}"
RawNoIngredients == [RawNoTitle EXCEPT !.title = "Soup", !.ingredients = <<>>]

DocNoInstructions ==
    "{\"title\":\"Soup\",\"description\":\"Warm.\",\"ingredients\":[\"water\"],\"instructions\":[]}"
RawNoInstructions == [RawNoTitle EXCEPT !.title = "Soup", !.instructions = <<>>]

DocNoDescription ==
    "{\"title\":\"Soup\",\"ingredients\":[\"water\"],\"instructions\":[\"Boil\"]}"
RawNoDescription == [RawNoTitle EXCEPT !.title = "Soup", !.description = Undefined]

DocBadJson == "{title: Soup}"

\* JSON.parse on the texts the provider sends in this model: the parsed
\* object, or a SyntaxError (ok = FALSE).
JsonParse(text) ==
    CASE text = DocBowl -> [ok |-> TRUE, value |-> RawBowl]
      [] text = DocToast -> [ok |-> TRUE, value |-> RawToast]
      [] text = DocNoTitle -> [ok |-> TRUE, value |-> RawNoTitle]
      [] text = DocBlankTitle -> [ok |-> TRUE, value |-> RawBlankTitle]
      [] text = DocNoIngredients -> [ok |-> TRUE, value |-> RawNoIngredients]
      [] text = DocNoInstructions -> [ok |-> TRUE, value |-> RawNoInstructions]
      [] text = DocNoDescription -> [ok |-> TRUE, value |-> RawNoDescription]
      [] OTHER -> [ok |-> FALSE, value |-> RawEmpty]

\* The markdown fence: three backquotes in the source, written here as three
\* apostrophes (a backquote is no character of a TLA+ string).
Fence == "'''"

\* What the model's provider puts in choices[0].message.content.
ReplyTexts ==
    {DocBowl, DocToast, DocNoTitle, DocBlankTitle, DocNoIngredients,
     DocNoInstructions, DocNoDescription, DocBadJson,
     "Here you go:\n" \o Fence \o "json\n" \o DocBowl \o "\n" \o Fence \o "\nEnjoy!",
     "Sorry, I cannot help with that.",
     "   "}

(***************************************************************************)
(* Response normalizer (OpenAIService.generateRecipe, after makeRequest).  *)
(***************************************************************************)
StripFences(response) ==
    RemoveLeadingWithSpace(
        RemoveAllWithSpace(RemoveAllWithSpace(Trim(response), Fence \o "json"), Fence),
        "json")

\* The greedy match of /\{[\s\S]*\}/, else the slice between the first "{"
\* and the last "}" (String.substring swaps its bounds when they are out of
\* order), else the format error.
ExtractJson(cleaned) ==
    LET firstBrace == IndexOf(cleaned, "{")
        lastBrace  == LastIndexOf(cleaned, "}")
    IN  IF firstBrace > 0 /\ lastBrace > firstBrace
        THEN [ok |-> TRUE, text |-> SubSeq(cleaned, firstBrace, lastBrace)]
        ELSE IF firstBrace = 0 \/ lastBrace = 0
        THEN [ok |-> FALSE, text |-> ""]
        ELSE [ok |-> TRUE, text |-> SubSeq(cleaned, lastBrace + 1, firstBrace - 1)]

validateRecipeStructure(recipe) ==
    LET hasRequiredFields ==
            /\ Truthy(recipe.title)
            /\ Truthy(recipe.description)
            /\ "ingredients" \in recipe.arrays
            /\ "instructions" \in recipe.arrays
        hasValidIngredients ==
            "ingredients" \in recipe.arrays /\ Len(recipe.ingredients) > 0
        hasValidInstructions ==
            "instructions" \in recipe.arrays /\ Len(recipe.instructions) > 0
    IN  hasRequiredFields /\ hasValidIngredients /\ hasValidInstructions

\* A JSON.parse SyntaxError's message (V8, for a text such as DocBadJson).
MsgSyntaxError == "Expected property name or '}' in JSON at position 1"

\* The two catch blocks of OpenAIService.generateRecipe: the inner one turns
\* whatever the parse-and-validate block throws into the format error; the
\* outer one lets a message carrying the key emoji through and replaces every
\* other by the generic one.
ClientInnerCatch(message) == MsgFormatError

ClientOuterCatch(message) ==
    IF Includes(message, KeyEmoji) THEN message ELSE MsgClientGeneric

\* OpenAIService.generateRecipe from the settlement of makeRequest on.
\* `request` is the settled makeRequest call, `stamp` the generated id.
\* raised: the error first thrown on the path (NoError if none);
\* error: the error the method rejects with; recipe: what it resolves with.
ClientOutcome(request, stamp) ==
    LET response  == request.content
        cleaned   == StripFences(response)
        extracted == ExtractJson(cleaned)
        parsed    == JsonParse(extracted.text)
        Thrown(raised, error) ==
            [raised |-> raised, error |-> error, recipe |-> RawEmpty]
    IN  IF request.pc = "threw"
        THEN Thrown(request.error, ClientOuterCatch(request.error))
        ELSE IF ~Truthy(response) \/ Len(Trim(response)) = 0
        THEN Thrown(MsgEmptyResponse, ClientOuterCatch(MsgEmptyResponse))
        ELSE IF ~extracted.ok
        THEN Thrown(MsgInvalidFormat, ClientOuterCatch(MsgInvalidFormat))
        ELSE IF ~parsed.ok
        THEN Thrown(MsgSyntaxError, ClientOuterCatch(ClientInnerCatch(MsgSyntaxError)))
        ELSE IF ~validateRecipeStructure(parsed.value)
        THEN Thrown(MsgIncompleteRecipe,
                    ClientOuterCatch(ClientInnerCatch(MsgIncompleteRecipe)))
        ELSE [raised |-> NoError, error |-> NoError,
              recipe |-> IF Truthy(parsed.value.id) THEN parsed.value
                         ELSE [parsed.value EXCEPT !.id = stamp]]

(***************************************************************************)
(* AIService: error classification of generateRecipe's catch block.        *)
(***************************************************************************)
\* ClassifyError with the connection test made first.
ClassifyErrorConnectionFirst(message) ==
    LET msg == toLowerCase(message)
    IN  IF \/ Includes(msg, "network") \/ Includes(msg, "fetch")
           \/ Includes(msg, "cors") \/ Includes(msg, "blocked")
        THEN MsgUserConnection
        ELSE IF Includes(message, "API key not configured") \/ Includes(msg, "not configured")
        THEN MsgUserNotConfigured
        ELSE IF Includes(msg, "429") \/ Includes(msg, "rate limit")
        THEN MsgUserRateLimited
        ELSE IF \/ Includes(msg, "401")
                \/ Includes(msg, "unauthorized")
                \/ (Includes(msg, "invalid") /\ Includes(msg, "key"))
        THEN MsgUserInvalidKey
        ELSE IF Includes(msg, "empty") \/ Includes(msg, "incomplete")
        THEN MsgUserIncomplete
        ELSE MsgGenericPrefix \o message

ClassifyError(message) ==
    LET msg == toLowerCase(message)
    IN  IF Includes(message, "API key not configured") \/ Includes(msg, "not configured")
        THEN MsgUserNotConfigured
        ELSE IF Includes(msg, "429") \/ Includes(msg, "rate limit")
        THEN MsgUserRateLimited
        ELSE IF \/ Includes(msg, "401")
                \/ Includes(msg, "unauthorized")
                \/ (Includes(msg, "invalid") /\ Includes(msg, "key"))
        THEN MsgUserInvalidKey
        ELSE IF \/ Includes(msg, "network") \/ Includes(msg, "fetch")
                \/ Includes(msg, "cors") \/ Includes(msg, "blocked")
        THEN MsgUserConnection
        ELSE IF Includes(msg, "empty") \/ Includes(msg, "incomplete")
        THEN MsgUserIncomplete
        ELSE MsgGenericPrefix \o message

(***************************************************************************)
(* AIService: fallback image selection.                                    *)
(***************************************************************************)
RECURSIVE Join(_, _)
Join(strs, sep) ==
    IF Len(strs) = 0 THEN ""
    ELSE IF Len(strs) = 1 THEN strs[1]
    ELSE strs[1] \o sep \o Join(Tail(strs), sep)

detectDishType(title, ingredients) ==
    LET titleLower == toLowerCase(title)
        allText    == toLowerCase(title \o " " \o Join(ingredients, " "))
    IN  IF \/ Includes(titleLower, "pasta") \/ Includes(allText, "spaghetti")
           \/ Includes(allText, "linguine")
        THEN "pasta"
        ELSE IF \/ Includes(titleLower, "salad") \/ Includes(allText, "lettuce")
                \/ Includes(allText, "greens")
        THEN "salad"
        ELSE IF \/ Includes(titleLower, "soup") \/ Includes(allText, "broth")
                \/ Includes(allText, "stock")
        THEN "soup"
        ELSE IF \/ Includes(titleLower, "curry") \/ Includes(allText, "spice")
                \/ Includes(allText, "coconut milk")
        THEN "curry"
        ELSE IF \/ Includes(titleLower, "stir") \/ Includes(titleLower, "fry")
                \/ Includes(allText, "wok")
        THEN "stirfry"
        ELSE IF \/ Includes(titleLower, "pizza")
                \/ (Includes(allText, "cheese") /\ Includes(allText, "tomato"))
        THEN "pizza"
        ELSE IF Includes(titleLower, "sandwich") \/ Includes(titleLower, "burger")
        THEN "sandwich"
        ELSE IF Includes(titleLower, "rice") \/ Includes(allText, "grain")
        THEN "rice"
        ELSE "general"

getFoodPhotoId(dishType) ==
    CASE dishType = "pasta"    -> "1565299624946-b28f40a0ca4b"
      [] dishType = "salad"    -> "1567620905732-2d1ec7ab7445"
      [] dishType = "soup"     -> "1571091718767-18b5b1457add"
      [] dishType = "curry"    -> "1565958011703-00e2c35b4c8f"
      [] dishType = "stirfry"  -> "1551963831-b3b1765a2bc0"
      [] dishType = "pizza"    -> "1556909114-37aa89dec418"
      [] dishType = "sandwich" -> "1504674900247-0877df9cc836"
      [] dishType = "rice"     -> "1546069901-ba9599a7e63c"
      [] OTHER                 -> "1555939594-58d7cb561ad1"

getFallbackImageUrl(title, ingredients) ==
    "https://images.unsplash.com/photo-"
        \o getFoodPhotoId(detectDishType(title, ingredients))
        \o "?w=800&h=600&fit=crop&auto=format&q=80"

(***************************************************************************)
(* AIService: the recipe formatter.                                        *)
(***************************************************************************)
Digits == "0123456789"
IsDigit(c) == Len(c) = 1 /\ Includes(Digits, c)
DigitValue(c) == IndexOf(Digits, c) - 1

RECURSIVE DigitPrefix(_)
DigitPrefix(str) ==
    IF Len(str) > 0 /\ IsDigit(SubSeq(str, 1, 1))
    THEN SubSeq(str, 1, 1) \o DigitPrefix(SubSeq(str, 2, Len(str)))
    ELSE ""

RECURSIVE DigitsValue(_)
DigitsValue(digits) ==
    IF Len(digits) = 0 THEN 0
    ELSE 10 * DigitsValue(SubSeq(digits, 1, Len(digits) - 1))
         + DigitValue(SubSeq(digits, Len(digits), Len(digits)))

\* parseInt(String(v)): leading white space, an optional sign, then the
\* longest run of decimal digits; NaN when there is no digit.
ParseInt(text) ==
    LET t        == TrimStart(text)
        negative == StartsWith(t, "-")
        unsigned == IF StartsWith(t, "-") \/ StartsWith(t, "+")
                    THEN SubSeq(t, 2, Len(t)) ELSE t
        digits   == DigitPrefix(unsigned)
    IN  IF Len(digits) = 0 THEN [nan |-> TRUE, value |-> 0]
        ELSE [nan |-> FALSE,
              value |-> IF negative THEN 0 - DigitsValue(digits) ELSE DigitsValue(digits)]

Min(a, b) == IF a < b THEN a ELSE b

validateCookTime(cookTime) ==
    LET time == ParseInt(cookTime)
    IN  IF time.nan \/ time.value < 1 THEN 30 ELSE Min(time.value, 480)

\* validateDifficulty comparing the raw text without lower-casing it.
validateDifficultyCaseSensitive(difficulty) ==
    IF difficulty \in {"easy", "medium", "hard"} THEN difficulty ELSE "medium"

validateDifficulty(difficulty) ==
    LET normalized == toLowerCase(difficulty)
    IN  IF normalized \in {"easy", "medium", "hard"} THEN normalized ELSE "medium"

validateServings(servings) ==
    LET count == ParseInt(servings)
    IN  IF count.nan \/ count.value < 1 THEN 4 ELSE Min(count.value, 20)

\* instruction.replace(/^Step \d+:?\s*/i, '')
StripStepPrefix(instruction) ==
    IF /\ Len(instruction) >= 6
       /\ toLowerCase(SubSeq(instruction, 1, 4)) = "step"
       /\ SubSeq(instruction, 5, 5) = " "
       /\ IsDigit(SubSeq(instruction, 6, 6))
    THEN LET number     == DigitPrefix(SubSeq(instruction, 6, Len(instruction)))
             afterDigit == SubSeq(instruction, 6 + Len(number), Len(instruction))
             afterColon == IF StartsWith(afterDigit, ":")
                           THEN SubSeq(afterDigit, 2, Len(afterDigit))
                           ELSE afterDigit
         IN  TrimStart(afterColon)
    ELSE instruction

formatIngredient(ing) ==
    IF ing.isString
    THEN [name |-> ing.name, quantity |-> "1", unit |-> "piece"]
    ELSE [name |-> IF Truthy(ing.name) THEN ing.name ELSE "Unknown ingredient",
          quantity |-> IF Truthy(ing.quantity) THEN ing.quantity ELSE "1",
          unit |-> IF Truthy(ing.unit) THEN ing.unit ELSE "piece"]

formatInstruction(instruction, index) ==
    "Step " \o ToString(index) \o ": " \o Trim(StripStepPrefix(instruction))

\* recipeData.instructions.map((instruction, index) => ...)
formatInstructions(instructions) ==
    [i \in 1..Len(instructions) |-> formatInstruction(instructions[i], i)]

\* The error formatRecipe throws on its input (NoError if it accepts it).
formatRecipeError(recipeData) ==
    IF ~Truthy(recipeData.title) THEN MsgMissingTitle
    ELSE IF "ingredients" \notin recipeData.arrays \/ Len(recipeData.ingredients) = 0
    THEN MsgMissingIngredients
    ELSE IF "instructions" \notin recipeData.arrays \/ Len(recipeData.instructions) = 0
    THEN MsgMissingInstructions
    ELSE NoError

NoRecipe ==
    [id |-> "", title |-> "", description |-> "", image |-> "", cookTime |-> 0,
     difficulty |-> "", servings |-> 0, ingredients |-> <<>>, instructions |-> <<>>,
     dietaryTags |-> <<>>, createdAt |-> 0]

\* formatRecipe drawing its fallback picture at random (the draw is read off
\* the generated id).
formatRecipeRandomPhoto(recipeData, stamp, time) ==
    [id |-> IF Truthy(recipeData.id) THEN recipeData.id ELSE stamp,
     title |-> Trim(recipeData.title),
     description |-> IF Truthy(recipeData.description) THEN recipeData.description
                     ELSE "A delicious AI-generated recipe perfect for your kitchen.",
     image |-> IF Truthy(recipeData.image) THEN recipeData.image
               ELSE "https://images.unsplash.com/photo-"
                    \o getFoodPhotoId(IF Includes(stamp, "k3f9x2") THEN "soup" ELSE "rice")
                    \o "?w=800&h=600&fit=crop&auto=format&q=80",
     cookTime |-> validateCookTime(recipeData.cookTime),
     difficulty |-> validateDifficulty(recipeData.difficulty),
     servings |-> validateServings(recipeData.servings),
     ingredients |-> [i \in 1..Len(recipeData.ingredients) |->
                         formatIngredient(recipeData.ingredients[i])],
     instructions |-> formatInstructions(recipeData.instructions),
     dietaryTags |-> IF "dietaryTags" \in recipeData.arrays
                     THEN recipeData.dietaryTags ELSE <<"general">>,
     createdAt |-> time]

\* formatRecipe on an input it accepts; `stamp` is the id it generates when
\* the input has none, `time` is Date.now().
formatRecipe(recipeData, stamp, time) ==
    LET formattedIngredients ==
            [i \in 1..Len(recipeData.ingredients) |->
                formatIngredient(recipeData.ingredients[i])]
        formattedInstructions == formatInstructions(recipeData.instructions)
        ingredientNames ==
            [i \in 1..Len(formattedIngredients) |-> formattedIngredients[i].name]
    IN  [id |-> IF Truthy(recipeData.id) THEN recipeData.id ELSE stamp,
         title |-> Trim(recipeData.title),
         description |-> IF Truthy(recipeData.description) THEN recipeData.description
                         ELSE "A delicious AI-generated recipe perfect for your kitchen.",
         image |-> IF Truthy(recipeData.image) THEN recipeData.image
                   ELSE getFallbackImageUrl(recipeData.title, ingredientNames),
         cookTime |-> validateCookTime(recipeData.cookTime),
         difficulty |-> validateDifficulty(recipeData.difficulty),
         servings |-> validateServings(recipeData.servings),
         ingredients |-> formattedIngredients,
         instructions |-> formattedInstructions,
         dietaryTags |-> IF "dietaryTags" \in recipeData.arrays
                         THEN recipeData.dietaryTags ELSE <<"general">>,
         createdAt |-> time]

(***************************************************************************)
(* Image generation client (the Pollinations service exported under the    *)
(* name geminiService) and AIService.generateRecipeImage.                  *)
(***************************************************************************)
Unreserved ==
    "ABCDEFGHIJKLMNOPQRSTUVWXYZabcdefghijklmnopqrstuvwxyz0123456789-_.!~*'()"

\* encodeURIComponent on one character, for the characters of the model's
\* titles, ingredient names and prompt template.
EncodeChar(c) ==
    CASE Includes(Unreserved, c) -> c
      [] c = " "  -> "%20"
      [] c = "\"" -> "%22"
      [] c = ","  -> "%2C"
      [] c = ":"  -> "%3A"
      [] c = "/"  -> "%2F"
      [] c = "&"  -> "%26"

RECURSIVE encodeURIComponent(_)
encodeURIComponent(str) ==
    IF Len(str) = 0 THEN ""
    ELSE IF Len(str) = 1 THEN EncodeChar(str)
    ELSE LET half == Len(str) \div 2
         IN  encodeURIComponent(SubSeq(str, 1, half))
                \o encodeURIComponent(SubSeq(str, half + 1, Len(str)))

\* createImagePrompt with the default options (style food-photography,
\* quality descriptor "high").
createImagePrompt(recipeTitle, ingredients) ==
    "Create a professional food-photography style image of \"" \o recipeTitle \o "\""
    \o (IF Len(ingredients) > 0
        THEN " featuring visible " \o Join(SubSeq(ingredients, 1, Min(3, Len(ingredients))), ", ")
        ELSE "")
    \o ". with professional lighting, shallow depth of field, and appetizing presentation on a clean white or wooden surface"
    \o ". Ultra-high quality, 4K resolution, restaurant-quality presentation"
    \o ". The dish should look fresh, delicious, and inviting. Avoid any text, logos, or watermarks in the image."

\* PollinationsImageService.generateRecipeImage when it returns: the URL it
\* builds; `seed` is Math.floor(Math.random() * 1000000).
pollinationsImageUrl(recipeTitle, ingredients, seed) ==
    "https://pollinations.ai/p/"
        \o encodeURIComponent(createImagePrompt(recipeTitle, ingredients))
        \o "?width=768&height=768&seed=" \o ToString(seed) \o "&model=flux"

\* generateRecipeImage giving up with an empty image when the client throws.
generateRecipeImageNoFallback(recipeTitle, ingredients, clientThrows, seed) ==
    IF clientThrows
    THEN ""
    ELSE pollinationsImageUrl(recipeTitle, ingredients, seed)

\* AIService.generateRecipeImage: the client's URL, or, when the client
\* throws, the fallback picture chosen from the title and the given names.
generateRecipeImage(recipeTitle, ingredients, clientThrows, seed) ==
    IF clientThrows
    THEN getFallbackImageUrl(recipeTitle, ingredients)
    ELSE pollinationsImageUrl(recipeTitle, ingredients, seed)

(***************************************************************************)
(* Cooking tips.  A tips value is a record of one shape: type is the       *)
(* JavaScript type of the value ("undefined", "null" or "object"), keys    *)
(* the object's own properties, and each category its array of items (<<>> *)
(* when the property is absent).                                           *)
(***************************************************************************)
NoTips(type) ==
    [type |-> type, keys |-> {},
     recipeTips |-> <<>>, ingredientSecrets |-> <<>>, flavorEnhancers |-> <<>>,
     commonPitfalls |-> <<>>, presentationTips |-> <<>>,
     generalTips |-> <<>>, proTips |-> <<>>, commonMistakes |-> <<>>,
     flavorPairings |-> <<>>]

UndefinedTips == NoTips("undefined")
NullTips == NoTips("null")

\* ingredients[0], the text a template literal renders for a value, and
\* the || default.
FirstOf(ingredients) == IF Len(ingredients) = 0 THEN Undefined ELSE ingredients[1]
TemplateText(v) == IF v = Undefined THEN "undefined" ELSE v
OrDefault(v, default) == IF Truthy(v) THEN v ELSE default

generateSimpleTips(ingredients) ==
    [NoTips("object") EXCEPT
       !.keys = {"generalTips", "proTips", "commonMistakes", "flavorPairings"},
       !.generalTips =
          <<[title |-> "Fresh Ingredients",
             content |-> "Use fresh " \o TemplateText(FirstOf(ingredients))
                         \o " for the best flavor and texture in your dish.",
             category |-> "preparation", importance |-> "high",
             estimatedTime |-> "1 minute"],
            [title |-> "Proper Seasoning",
             content |-> "Season your ingredients at the right time for maximum flavor absorption.",
             category |-> "flavor", importance |-> "high",
             estimatedTime |-> "2 minutes"]>>,
       !.proTips =
          <<[title |-> "Temperature Control",
             content |-> "Master your cooking temperature for professional results.",
             category |-> "technique", chefSecret |-> TRUE]>>,
       !.commonMistakes =
          <<[mistake |-> "Overcooking ingredients",
             solution |-> "Monitor cooking time closely",
             prevention |-> "Use a timer and check frequently"]>>,
       !.flavorPairings =
          <<[ingredient |-> OrDefault(FirstOf(ingredients), "main ingredient"),
             pairs |-> <<"herbs", "spices">>,
             why |-> "These combinations enhance the natural flavors"]>>]

detectRecipeType(title) ==
    LET titleLower == toLowerCase(title)
    IN  IF Includes(titleLower, "stir") \/ Includes(titleLower, "fry") THEN "stir-fry"
        ELSE IF Includes(titleLower, "pasta") \/ Includes(titleLower, "spaghetti") THEN "pasta"
        ELSE IF Includes(titleLower, "soup") \/ Includes(titleLower, "broth") THEN "soup"
        ELSE IF Includes(titleLower, "salad") THEN "salad"
        ELSE IF Includes(titleLower, "curry") THEN "curry"
        ELSE IF Includes(titleLower, "roast") \/ Includes(titleLower, "bake") THEN "roasted"
        ELSE IF Includes(titleLower, "grill") THEN "grilled"
        ELSE IF Includes(titleLower, "steam") THEN "steamed"
        ELSE "dish"

generateRecipeSpecificFallback(recipeTitle, ingredients) ==
    LET mainIngredient == OrDefault(FirstOf(ingredients), "main ingredient")
        recipeType == detectRecipeType(recipeTitle)
    IN  [NoTips("object") EXCEPT
           !.keys = {"recipeTips", "ingredientSecrets", "flavorEnhancers",
                     "commonPitfalls", "presentationTips"},
           !.recipeTips =
              <<[title |-> "Perfect " \o recipeType \o " Technique",
                 content |-> "For " \o recipeTitle
                    \o ", focus on proper timing and temperature control to achieve the best results with "
                    \o mainIngredient \o ".",
                 category |-> "cooking", importance |-> "critical",
                 estimatedTime |-> "2-3 minutes",
                 appliesToStep |-> "Main cooking phase"],
                [title |-> "Ingredient Preparation",
                 content |-> "Properly prepare your " \o mainIngredient
                    \o " by washing, cutting to uniform size, and having all ingredients ready before you start cooking "
                    \o recipeTitle \o ".",
                 category |-> "preparation", importance |-> "high",
                 estimatedTime |-> "5-10 minutes",
                 appliesToStep |-> "Preparation phase"]>>,
           !.ingredientSecrets =
              <<[ingredient |-> mainIngredient,
                 secret |-> "The key to perfect " \o mainIngredient \o " in " \o recipeTitle
                    \o " is to not overcrowd the pan and maintain consistent heat.",
                 impact |-> "Better texture and more even cooking"]>>,
           !.flavorEnhancers =
              <<[technique |-> "Layered Seasoning",
                 description |-> "Season " \o recipeTitle
                    \o " at multiple stages - during prep, cooking, and final plating for deeper flavor.",
                 result |-> "More complex and well-developed taste",
                 timing |-> "Throughout the cooking process"]>>,
           !.commonPitfalls =
              <<[pitfall |-> "Rushing the cooking process for " \o recipeType,
                 prevention |-> "Allow proper time for each cooking stage and don't turn up the heat too high",
                 recovery |-> "Lower heat and extend cooking time if ingredients are browning too quickly",
                 why |-> recipeType \o " dishes need time to develop proper flavors and textures"]>>,
           !.presentationTips =
              <<[tip |-> "Color and Texture Balance",
                 description |-> "Arrange " \o recipeTitle
                    \o " with attention to color contrast and varied textures for visual appeal."]>>]

\* Replies of the provider to a tips request, and JSON.parse on them.
DocDynamicTips ==
    "{\"recipeTips\":[{\"title\":\"Rinse the rice\",\"content\":\"Rinse until the water runs clear.\",\"category\":\"preparation\",\"importance\":\"high\",\"estimatedTime\":\"2 minutes\",\"appliesToStep\":\"Preparation\"}],\"presentationTips\":[{\"tip\":\"Warm bowls\",\"description\":\"Serve in warmed bowls.\"}]}"
RawDynamicTips ==
    [NoTips("object") EXCEPT
       !.keys = {"recipeTips", "presentationTips"},
       !.recipeTips =
          <<[title |-> "Rinse the rice", content |-> "Rinse until the water runs clear.",
             category |-> "preparation", importance |-> "high",
             estimatedTime |-> "2 minutes", appliesToStep |-> "Preparation"]>>,
       !.presentationTips =
          <<[tip |-> "Warm bowls", description |-> "Serve in warmed bowls."]>>]

DocGenericTips ==
    "{\"generalTips\":[{\"title\":\"Salt early\",\"content\":\"Salt the water.\",\"category\":\"flavor\",\"importance\":\"medium\",\"estimatedTime\":\"1 minute\"}],\"proTips\":[]}"
RawGenericTips ==
    [NoTips("object") EXCEPT
       !.keys = {"generalTips", "proTips"},
       !.generalTips =
          <<[title |-> "Salt early", content |-> "Salt the water.",
             category |-> "flavor", importance |-> "medium",
             estimatedTime |-> "1 minute"]>>]

DocNull == "null"

JsonParseTips(text) ==
    CASE text = DocDynamicTips -> [ok |-> TRUE, value |-> RawDynamicTips]
      [] text = DocGenericTips -> [ok |-> TRUE, value |-> RawGenericTips]
      [] text = DocNull -> [ok |-> TRUE, value |-> NullTips]
      [] OTHER -> [ok |-> FALSE, value |-> UndefinedTips]

TipReplyTexts ==
    {DocDynamicTips, DocGenericTips, DocNull,
     Fence \o "json\n" \o DocDynamicTips \o "\n" \o Fence,
     "Here are some tips: season well and taste often."}

TipResponses ==
    {NetworkFailure, HttpError(500, Undefined), HttpOk(Undefined)}
        \cup {HttpOk(text) : text \in TipReplyTexts}

\* cleanedResponse.match(/\{[\s\S]*\}/): the greedy match when there is one,
\* else the text as it is.
MatchJson(cleaned) ==
    LET firstBrace == IndexOf(cleaned, "{")
        lastBrace  == LastIndexOf(cleaned, "}")
    IN  IF firstBrace > 0 /\ lastBrace > firstBrace
        THEN SubSeq(cleaned, firstBrace, lastBrace)
        ELSE cleaned

\* generateDynamicCookingTips once its makeRequest has settled: the tips it
\* resolves with, and whether recipe-specific generation failed (makeRequest
\* threw, or the reply did not parse to an object).
generateDynamicCookingTips(recipeTitle, ingredients, request) ==
    LET parsed == JsonParseTips(MatchJson(StripFences(request.content)))
    IN  IF request.pc = "returned" /\ parsed.ok /\ parsed.value.type = "object"
        THEN [failed |-> FALSE, tips |-> parsed.value]
        ELSE [failed |-> TRUE,
              tips |-> generateRecipeSpecificFallback(recipeTitle, ingredients)]

\* generateCookingTips once its makeRequest has settled.
generateCookingTips(ingredients, request) ==
    LET parsed == JsonParseTips(request.content)
    IN  IF request.pc = "returned" /\ parsed.ok
        THEN [failed |-> FALSE, tips |-> parsed.value]
        ELSE [failed |-> TRUE, tips |-> generateSimpleTips(ingredients)]

\* TipPersonalizationPanel.generateDynamicTips after getRecipeEnhancements
\* has resolved: the toast it shows.
PanelToast(cookingTips) == IF cookingTips.type = "object" THEN "success" ELSE "error"

\* The recipes the panel is opened on (title, ingredients.map(ing => ing.name)).
TipRecipes ==
    {[title |-> "Chicken Rice Bowl", names |-> <<"chicken", "rice">>],
     [title |-> "Tomato Soup", names |-> <<"tomato">>],
     [title |-> "Plain Water", names |-> <<>>]}

\* The tip generators that reject when called (the others run their code).
RejectingGenerators == SUBSET {"generateDynamicCookingTips", "generateCookingTips"}

IdleTips ==
    [pc |-> "Idle", title |-> "", names |-> <<>>, rejecting |-> {},
     invoked |-> <<>>, dynamicFailed |-> FALSE,
     cookingTips |-> UndefinedTips, toast |-> ""]

\* getRecipeEnhancements up to its first suspension on the network; when
\* both generators reject, the outer catch leaves enhancements empty.
GetRecipeEnhancements(recipe, rejecting) ==
    /\ tips.pc = "Idle"
    /\ runs < MaxRuns
    /\ runs' = runs + 1
    /\ LET started == [tips EXCEPT !.title = recipe.title, !.names = recipe.names,
                                   !.rejecting = rejecting]
       IN  IF "generateDynamicCookingTips" \notin rejecting
           THEN /\ MakeRequest(1)
                /\ tips' = [started EXCEPT !.pc = "AwaitingDynamicTips",
                                           !.invoked = <<"generateDynamicCookingTips">>]
           ELSE IF "generateCookingTips" \notin rejecting
           THEN /\ MakeRequest(1)
                /\ tips' = [started EXCEPT
                              !.pc = "AwaitingGenericTips",
                              !.dynamicFailed = TRUE,
                              !.invoked = <<"generateDynamicCookingTips",
                                            "generateCookingTips">>]
           ELSE /\ tips' = [started EXCEPT
                              !.pc = "Settled",
                              !.dynamicFailed = TRUE,
                              !.invoked = <<"generateDynamicCookingTips",
                                            "generateCookingTips">>,
                              !.cookingTips = UndefinedTips,
                              !.toast = PanelToast(UndefinedTips)]
                /\ UNCHANGED throttleVars
    /\ UNCHANGED <<gen, asyncCall, fmt, ui>>

\* makeRequest has settled inside generateDynamicCookingTips: the generator
\* resolves, getRecipeEnhancements returns and the panel shows its toast.
DynamicTipsSettle ==
    /\ tips.pc = "AwaitingDynamicTips"
    /\ mr[1].pc \in {"returned", "threw"}
    /\ LET out == generateDynamicCookingTips(tips.title, tips.names, mr[1])
       IN  tips' = [tips EXCEPT
                      !.pc = "Settled",
                      !.dynamicFailed = out.failed,
                      !.invoked = IF out.failed
                                  THEN Append(@, "generateRecipeSpecificFallback")
                                  ELSE @,
                      !.cookingTips = out.tips,
                      !.toast = PanelToast(out.tips)]
    /\ UNCHANGED <<throttleVars, runs, gen, asyncCall, fmt, ui>>

\* makeRequest has settled inside generateCookingTips, called from the
\* .catch handler of getRecipeEnhancements.
GenericTipsSettle ==
    /\ tips.pc = "AwaitingGenericTips"
    /\ mr[1].pc \in {"returned", "threw"}
    /\ LET out == generateCookingTips(tips.names, mr[1])
       IN  tips' = [tips EXCEPT
                      !.pc = "Settled",
                      !.invoked = IF out.failed
                                  THEN Append(@, "generateSimpleTips")
                                  ELSE @,
                      !.cookingTips = out.tips,
                      !.toast = PanelToast(out.tips)]
    /\ UNCHANGED <<throttleVars, runs, gen, asyncCall, fmt, ui>>

\* The panel is opened on another recipe.
NextTipsRequest ==
    /\ tips.pc = "Settled"
    /\ runs < MaxRuns
    /\ tips' = IdleTips
    /\ mr' = [mr EXCEPT ![1] = IdleRequest]
    /\ UNCHANGED <<now, apiKey, lastRequestTime, issued, runs, gen, asyncCall, fmt, ui>>

(***************************************************************************)
(* AIService.generateRecipe, one call at a time: the user asks again only  *)
(* after the previous call has settled.                                    *)
(***************************************************************************)
Pantries == {<<>>, <<"chicken", "rice">>, <<"bread">>}

RandomSuffixes == {"k3f9x2m1q", "a7b8c9d0e"}
ImageSeeds == {424242}

RecipeResponses ==
    {NetworkFailure, HttpError(401, Undefined), HttpError(429, Undefined),
     HttpError(500, Undefined), HttpError(404, "model not found"), HttpOk(Undefined)}
    \cup {HttpOk(text) : text \in ReplyTexts}

\* The constraints the caller passes with the ingredients.
RecipeOptions ==
    {[maxTime |-> 30, difficulty |-> "easy", servings |-> 2],
     [maxTime |-> 20, difficulty |-> "hard", servings |-> 6]}
NoOptions == [maxTime |-> 0, difficulty |-> "", servings |-> 0]

IdleCall ==
    [pc |-> "Idle", ingredients |-> <<>>, options |-> NoOptions,
     imageClientThrew |-> FALSE,
     textCalls |-> 0, imageCalls |-> 0, steps |-> <<>>,
     raised |-> NoError, clientError |-> NoError, rejection |-> NoError,
     failedFrom |-> "", openaiRecipe |-> RawEmpty,
     formatterImage |-> "", recipe |-> NoRecipe]

\* The rejection of AIService.generateRecipe from inside its try block.
Reject(call, from, raised, clientError, thrown) ==
    [call EXCEPT !.pc = "Failed", !.failedFrom = from, !.raised = raised,
                 !.clientError = clientError, !.rejection = ClassifyError(thrown),
                 !.steps = Append(@, "reject")]

\* GenerateRecipe with the empty-list check made only after the client has
\* been called.
GenerateRecipeChecksLate(ings, options) ==
    /\ gen.pc = "Idle"
    /\ runs < MaxRuns
    /\ runs' = runs + 1
    /\ MakeRequest(1)
    /\ gen' = IF Len(ings) = 0
              THEN [gen EXCEPT !.pc = "Failed", !.failedFrom = "ValidatingInput",
                         !.ingredients = ings, !.options = options, !.textCalls = @ + 1,
                         !.rejection = MsgAddIngredients,
                         !.steps = Append(@, "reject")]
              ELSE [gen EXCEPT !.pc = "AwaitingProviderResponse",
                         !.ingredients = ings, !.options = options, !.textCalls = @ + 1,
                         !.steps = Append(@, "request")]

\* Entry: the empty-list check, then openaiService.generateRecipe, which runs
\* makeRequest up to its first suspension.
GenerateRecipe(ings, options) ==
    /\ gen.pc = "Idle"
    /\ runs < MaxRuns
    /\ runs' = runs + 1
    /\ IF Len(ings) = 0
       THEN /\ gen' = [gen EXCEPT !.pc = "Failed", !.failedFrom = "ValidatingInput",
                          !.ingredients = ings, !.options = options,
                          !.rejection = MsgAddIngredients,
                          !.steps = Append(@, "reject")]
            /\ UNCHANGED throttleVars
       ELSE /\ MakeRequest(1)
            /\ gen' = [gen EXCEPT !.pc = "AwaitingProviderResponse",
                          !.ingredients = ings, !.options = options,
                          !.textCalls = @ + 1,
                          !.steps = Append(@, "request")]

\* ReceiveResponse sending the request once more after a 429 or 5xx answer.
ReceiveResponseRetrying ==
    /\ gen.pc = "AwaitingProviderResponse"
    /\ mr[1].pc \in {"returned", "threw"}
    /\ IF mr[1].pc = "threw" /\ mr[1].status \in {429, 500} /\ Len(issued) <= runs
       THEN /\ mr' = [mr EXCEPT ![1] = [IdleRequest EXCEPT !.pc = "fetching"]]
            /\ issued' = Append(issued, now)
            /\ lastRequestTime' = now
            /\ UNCHANGED <<now, apiKey, runs, gen>>
       ELSE /\ gen' = IF mr[1].pc = "threw"
                      THEN LET out == ClientOutcome(mr[1], "")
                           IN  Reject(gen, "AwaitingProviderResponse", out.raised,
                                      out.error, out.error)
                      ELSE [gen EXCEPT !.pc = "Normalizing",
                                       !.steps = Append(@, "response")]
            /\ UNCHANGED <<throttleVars, runs>>

\* makeRequest has settled: its rejection goes through the client's and the
\* orchestrator's catch blocks; its text goes on to the normalizer.
ReceiveResponse ==
    /\ gen.pc = "AwaitingProviderResponse"
    /\ mr[1].pc \in {"returned", "threw"}
    /\ gen' = IF mr[1].pc = "threw"
              THEN LET out == ClientOutcome(mr[1], "")
                   IN  Reject(gen, "AwaitingProviderResponse", out.raised, out.error, out.error)
              ELSE [gen EXCEPT !.pc = "Normalizing", !.steps = Append(@, "response")]
    /\ UNCHANGED <<throttleVars, runs>>

\* The client cleans, extracts, parses and validates the text.
Normalize(rnd) ==
    /\ gen.pc = "Normalizing"
    /\ LET out == ClientOutcome(mr[1], "chatgpt_" \o ToString(now) \o "_" \o rnd)
       IN  gen' = IF out.error # NoError
                  THEN Reject([gen EXCEPT !.steps = Append(@, "normalize")],
                              "Normalizing", out.raised, out.error, out.error)
                  ELSE [gen EXCEPT !.pc = "Formatting", !.openaiRecipe = out.recipe,
                                   !.steps = @ \o <<"normalize", "validated">>]
    /\ UNCHANGED <<throttleVars, runs>>

\* Format started without waiting for the normalizer's result.
FormatWithoutWaiting(rnd) ==
    /\ gen.pc \in {"Normalizing", "Formatting"}
    /\ LET thrown == IF ~Truthy(gen.openaiRecipe.title) THEN MsgOrchIncomplete
                     ELSE formatRecipeError(gen.openaiRecipe)
           formattedRecipe ==
               formatRecipe(gen.openaiRecipe,
                            "chatgpt_" \o ToString(now) \o "_" \o SubSeq(rnd, 1, 6), now)
       IN  gen' = IF thrown # NoError
                  THEN Reject([gen EXCEPT !.steps = Append(@, "format")],
                              "Formatting", thrown, NoError, thrown)
                  ELSE [gen EXCEPT !.pc = "AttemptingImageEnhancement",
                                   !.recipe = formattedRecipe,
                                   !.formatterImage = formattedRecipe.image,
                                   !.imageCalls = @ + 1,
                                   !.steps = @ \o <<"format", "formatted", "image-start">>]
    /\ UNCHANGED <<throttleVars, runs>>

\* The orchestrator checks the title, formats the recipe and starts the
\* image enhancement.
Format(rnd) ==
    /\ gen.pc = "Formatting"
    /\ LET thrown == IF ~Truthy(gen.openaiRecipe.title) THEN MsgOrchIncomplete
                     ELSE formatRecipeError(gen.openaiRecipe)
           formattedRecipe ==
               formatRecipe(gen.openaiRecipe,
                            "chatgpt_" \o ToString(now) \o "_" \o SubSeq(rnd, 1, 6), now)
       IN  gen' = IF thrown # NoError
                  THEN Reject([gen EXCEPT !.steps = Append(@, "format")],
                              "Formatting", thrown, NoError, thrown)
                  ELSE [gen EXCEPT !.pc = "AttemptingImageEnhancement",
                                   !.recipe = formattedRecipe,
                                   !.formatterImage = formattedRecipe.image,
                                   !.imageCalls = @ + 1,
                                   !.steps = @ \o <<"format", "formatted", "image-start">>]
    /\ UNCHANGED <<throttleVars, runs>>

\* generateRecipeImage settles (it never rejects): its result replaces the
\* recipe's image and the call resolves.
ImageEnhancementSettles(clientThrows, seed) ==
    /\ gen.pc = "AttemptingImageEnhancement"
    /\ gen' = [gen EXCEPT !.pc = "Done",
                  !.imageClientThrew = clientThrows,
                  !.recipe = [@ EXCEPT !.image =
                      generateRecipeImage(gen.recipe.title, gen.ingredients,
                                          clientThrows, seed)],
                  !.steps = @ \o <<"image-end", "resolve">>]
    /\ UNCHANGED <<throttleVars, runs>>

\* The caller has its answer; the next call starts from a fresh record.
NextCall ==
    /\ gen.pc \in {"Done", "Failed"}
    /\ runs < MaxRuns
    /\ gen' = IdleCall
    /\ mr' = [mr EXCEPT ![1] = IdleRequest]
    /\ UNCHANGED <<now, apiKey, lastRequestTime, issued, runs>>

(***************************************************************************)
(* AIService.generateRecipeWithAsyncImage: it awaits generateRecipe, then, *)
(* when the caller gave onImageGenerated, sets a timer whose handler calls *)
(* generateRecipeImage and hands the result to the callback.               *)
(***************************************************************************)
asyncImageDelay == 100

IdleAsync ==
    [pc |-> "Idle", hasCallback |-> FALSE, returned |-> NoRecipe,
     rejection |-> NoError, imageCallsAtReturn |-> 0, timerDue |-> 0,
     clientThrew |-> FALSE, callbackThrew |-> FALSE, events |-> <<>>,
     callbacks |-> <<>>]

\* Entry: generateRecipe is called and awaited.
GenerateRecipeWithAsyncImage(ings, options, hasCallback) ==
    /\ asyncCall.pc = "Idle"
    /\ GenerateRecipe(ings, options)
    /\ asyncCall' = [asyncCall EXCEPT !.pc = "AwaitingRecipe",
                                      !.hasCallback = hasCallback]

\* generateRecipe has settled: its rejection propagates, or the timer is
\* set (only when there is a callback) and the recipe is returned.
AsyncRecipeSettles ==
    /\ asyncCall.pc = "AwaitingRecipe"
    /\ gen.pc \in {"Done", "Failed"}
    /\ asyncCall' =
         IF gen.pc = "Failed"
         THEN [asyncCall EXCEPT !.pc = "Rejected", !.rejection = gen.rejection,
                                !.events = Append(@, "reject")]
         ELSE [asyncCall EXCEPT
                 !.pc = IF asyncCall.hasCallback THEN "TimerSet" ELSE "Returned",
                 !.returned = gen.recipe,
                 !.imageCallsAtReturn = gen.imageCalls,
                 !.timerDue = IF asyncCall.hasCallback THEN now + asyncImageDelay ELSE 0,
                 !.events = Append(@, "return")]
    /\ UNCHANGED <<throttleVars, recipeVars>>

\* The timer fires: the handler calls generateRecipeImage and awaits it.
AsyncImageTimerFires ==
    /\ asyncCall.pc = "TimerSet"
    /\ now >= asyncCall.timerDue
    /\ asyncCall' = [asyncCall EXCEPT !.pc = "AwaitingImage",
                                      !.events = Append(@, "image-attempt")]
    /\ UNCHANGED <<throttleVars, recipeVars>>

\* generateRecipeImage settles (it never rejects): the callback gets the
\* recipe's id and the image.  The call of the callback stands inside the
\* handler's try block: when the callback throws, the catch block calls it
\* once more, with the recipe's own image.
AsyncImageSettles(clientThrows, seed, callbackThrows) ==
    /\ asyncCall.pc = "AwaitingImage"
    /\ LET first  == [recipeId |-> asyncCall.returned.id,
                      imageUrl |-> generateRecipeImage(asyncCall.returned.title,
                                       gen.ingredients, clientThrows, seed)]
           second == [recipeId |-> asyncCall.returned.id,
                      imageUrl |-> asyncCall.returned.image]
       IN  asyncCall' =
             [asyncCall EXCEPT
                !.pc = "CallbackInvoked",
                !.clientThrew = clientThrows,
                !.callbackThrew = callbackThrows,
                !.callbacks = IF callbackThrows THEN @ \o <<first, second>>
                              ELSE Append(@, first),
                !.events = IF callbackThrows THEN @ \o <<"callback", "callback">>
                           ELSE Append(@, "callback")]
    /\ UNCHANGED <<throttleVars, recipeVars>>

\* The caller is done with the call; the next one starts afresh.
NextAsyncCall ==
    /\ asyncCall.pc \in {"Rejected", "Returned", "CallbackInvoked"}
    /\ runs < MaxRuns
    /\ asyncCall' = IdleAsync
    /\ gen' = IdleCall
    /\ mr' = [mr EXCEPT ![1] = IdleRequest]
    /\ UNCHANGED <<now, apiKey, lastRequestTime, issued, runs>>

\* No hook or component is mounted.
IdleUi == [kind |-> "none"]

\* No formatter function has been applied.
IdleFmt == [kind |-> "none", input |-> <<>>, output |-> <<>>, applied |-> FALSE]

Init ==
    /\ now = Epoch
    /\ apiKey \in ApiKeys
    /\ lastRequestTime = 0
    /\ mr = [c \in Calls |-> IdleRequest]
    /\ issued = <<>>
    /\ runs = 0
    /\ gen = IdleCall
    /\ tips = IdleTips
    /\ asyncCall = IdleAsync
    /\ fmt = IdleFmt
    /\ ui = IdleUi

StartCall == \E ings \in Pantries : \E options \in RecipeOptions : GenerateRecipe(ings, options)
RateLimitTimerFires == WaitForRateLimitResume(1) /\ UNCHANGED recipeVars
ProviderResponds ==
    /\ gen.pc = "AwaitingProviderResponse"
    /\ \E resp \in RecipeResponses : FetchSettles(1, resp)
    /\ UNCHANGED recipeVars
ClientNormalizes == \E rnd \in RandomSuffixes : Normalize(rnd)
OrchestratorFormats == \E rnd \in RandomSuffixes : Format(rnd)
ImageSettles ==
    \E clientThrows \in BOOLEAN : \E seed \in ImageSeeds :
        ImageEnhancementSettles(clientThrows, seed)
\* Time passes while the call is suspended on the network or a timer, and
\* between calls; the code between two suspensions runs within one reading
\* of the clock.
TimePasses ==
    /\ gen.pc \in {"Idle", "AwaitingProviderResponse"}
    /\ Tick
    /\ UNCHANGED recipeVars

Next ==
    \/ StartCall /\ UNCHANGED <<tips, asyncCall, fmt, ui>>
    \/ RateLimitTimerFires /\ UNCHANGED <<tips, asyncCall, fmt, ui>>
    \/ ProviderResponds /\ UNCHANGED <<tips, asyncCall, fmt, ui>>
    \/ ReceiveResponse /\ UNCHANGED <<tips, asyncCall, fmt, ui>>
    \/ ClientNormalizes /\ UNCHANGED <<tips, asyncCall, fmt, ui>>
    \/ OrchestratorFormats /\ UNCHANGED <<tips, asyncCall, fmt, ui>>
    \/ ImageSettles /\ UNCHANGED <<tips, asyncCall, fmt, ui>>
    \/ NextCall /\ UNCHANGED <<tips, asyncCall, fmt, ui>>
    \/ TimePasses /\ UNCHANGED <<tips, asyncCall, fmt, ui>>

Spec == Init /\ [][Next]_vars

(***************************************************************************)
(* SpecAsync: generateRecipeWithAsyncImage called MaxRuns times one after  *)
(* the other, with or without onImageGenerated.                            *)
(***************************************************************************)
StartAsyncCall ==
    /\ \E ings \in Pantries : \E options \in RecipeOptions : \E hasCallback \in BOOLEAN :
           GenerateRecipeWithAsyncImage(ings, options, hasCallback)
    /\ UNCHANGED <<tips, fmt, ui>>
\* The provider's answers to the recipe request of the awaited call.
AsyncResponses ==
    {NetworkFailure, HttpError(429, Undefined), HttpOk(DocBowl), HttpOk(DocToast),
     HttpOk(DocNoTitle)}
AsyncProviderResponds ==
    /\ gen.pc = "AwaitingProviderResponse"
    /\ \E resp \in AsyncResponses : FetchSettles(1, resp)
    /\ UNCHANGED recipeVars
AsyncImageAnswers ==
    \E clientThrows \in BOOLEAN : \E seed \in ImageSeeds :
        \E callbackThrows \in BOOLEAN :
            AsyncImageSettles(clientThrows, seed, callbackThrows)
AsyncTimePasses ==
    /\ \/ gen.pc = "AwaitingProviderResponse"
       \/ asyncCall.pc \in {"Idle", "TimerSet"}
    /\ Tick
    /\ UNCHANGED <<recipeVars, asyncCall>>

NextAsync ==
    \/ StartAsyncCall
    \/ RateLimitTimerFires /\ UNCHANGED <<tips, asyncCall, fmt, ui>>
    \/ AsyncProviderResponds /\ UNCHANGED <<tips, asyncCall, fmt, ui>>
    \/ ReceiveResponse /\ UNCHANGED <<tips, asyncCall, fmt, ui>>
    \/ ClientNormalizes /\ UNCHANGED <<tips, asyncCall, fmt, ui>>
    \/ OrchestratorFormats /\ UNCHANGED <<tips, asyncCall, fmt, ui>>
    \/ ImageSettles /\ UNCHANGED <<tips, asyncCall, fmt, ui>>
    \/ AsyncRecipeSettles /\ UNCHANGED <<tips, fmt, ui>>
    \/ AsyncImageTimerFires /\ UNCHANGED <<tips, fmt, ui>>
    \/ AsyncImageAnswers /\ UNCHANGED <<tips, fmt, ui>>
    \/ NextAsyncCall /\ UNCHANGED <<tips, fmt, ui>>
    \/ AsyncTimePasses /\ UNCHANGED <<tips, fmt, ui>>

SpecAsync == Init /\ [][NextAsync]_vars

(***************************************************************************)
(* SpecFormat: the formatter's functions applied to raw values of a        *)
(* provider reply.  fmt holds the function's name (kind), its input and,   *)
(* once applied, its output.                                               *)
(***************************************************************************)
MaxInstructions == 2

\* Instruction lists as a provider writes them.
InstructionLists ==
    LET InstructionTexts ==
            {"Boil water", "Step 3: Boil water", "step 2 Drain", "Step 12:Serve hot",
             " Step 3: Boil water", "Step 1: Step 2: Stir", "  "}
    IN  UNION {[1..n -> InstructionTexts] : n \in 0..MaxInstructions}

\* Raw cookTime and servings values of a parsed reply: the JavaScript value
\* (literal), its type, String(value) (text), and where the value lies:
\* "nan" for a value that is no number, else below 1, within the range up to
\* `limit`, or above it.
RawNumberValues(limit) ==
    LET RawNumber(literal, type, text, magnitude) ==
            [literal |-> literal, type |-> type, text |-> text,
             magnitude |-> magnitude]
    IN  {RawNumber("undefined", "undefined", Undefined, "nan"),
         RawNumber("null", "object", "null", "nan"),
         RawNumber("'abc'", "string", "abc", "nan"),
         RawNumber("'45 minutes'", "string", "45 minutes", "nan"),
         RawNumber("'12'", "string", "12", "within"),
         RawNumber("0", "number", "0", "below"),
         RawNumber("-5", "number", "-5", "below"),
         RawNumber("0.5", "number", "0.5", "below"),
         RawNumber("1", "number", "1", "within"),
         RawNumber("2.5", "number", "2.5", "within"),
         RawNumber(ToString(limit), "number", ToString(limit), "within"),
         RawNumber(ToString(limit + 1), "number", ToString(limit + 1), "above"),
         RawNumber("100000", "number", "100000", "above"),
         RawNumber("1e21", "number", "1e+21", "above")}

\* Raw difficulty values, as String(difficulty).
RawDifficulties ==
    {"easy", "Easy", "HARD", "MeDiUm", "expert", "", " easy", "easy-ish",
     Undefined, "null", "3"}

\* Accepted raw recipes, and the (generated id, Date.now()) of two calls of
\* formatRecipe.
ValidRawRecipes ==
    {RawBowl, RawToast, RawBlankTitle, RawNoDescription,
     [RawBowl EXCEPT !.id = "recipe-7"]}
FormatRuns ==
    {[stamp |-> "chatgpt_10000_k3f9x2", time |-> Epoch],
     [stamp |-> "chatgpt_11000_a7b8c9", time |-> Epoch + TickStep]}

\* Replies of the provider: commentary, one JSON object (`object`, the JSON
\* text), fenced or not, and commentary after the closing fence; and replies
\* without any brace, whose `object` is empty.
NormalizerReplies ==
    LET LeadingCommentary  == {"", "Here you go:\n", "Recipe {draft}:\n"}
        TrailingCommentary == {"", "\nEnjoy!", "\nTip: use {fresh} herbs"}
        ReplyObjects       == {DocBowl, DocToast}
        FencedReply(leading, object, trailing) ==
            [object |-> object,
             text |-> leading \o Fence \o "json\n" \o object \o "\n" \o Fence
                        \o trailing]
        BareReply(leading, object) ==
            [object |-> object, text |-> leading \o object]
    IN  {FencedReply(leading, object, trailing) :
            leading \in LeadingCommentary, object \in ReplyObjects,
            trailing \in TrailingCommentary}
          \cup {BareReply(leading, object) :
                   leading \in LeadingCommentary, object \in ReplyObjects}
          \cup {[object |-> "", text |-> text] :
                   text \in {"Sorry, I cannot help with that.",
                             Fence \o "json\n" \o Fence,
                             "json"}}

\* A makeRequest call that resolved with `content`.
ResolvedRequest(content) ==
    [IdleRequest EXCEPT !.pc = "resolved", !.content = content]

\* Messages of the Error objects thrown inside generateRecipe's try block:
\* those of the text client, of the orchestrator and of the formatter, and
\* messages that several keyword tests match.
CaughtErrors ==
    {MsgNotConfigured, MsgStatus401, MsgStatus429, MsgStatus5xx, MsgEmptyResponse,
     MsgFetchFailed, MsgInvalidFormat, MsgIncompleteRecipe, MsgFormatError,
     MsgClientGeneric, MsgOrchIncomplete, MsgMissingTitle, MsgMissingIngredients,
     MsgMissingInstructions,
     "HTTP 401: Rate Limit exceeded",
     "Network blocked: API key not configured",
     "Invalid API KEY: empty",
     "CORS fetch returned an incomplete body",
     "UNAUTHORIZED",
     "Invalid JSON",
     ""}

\* The argument of each formatter call; generateRecipe is called with an
\* empty or a non-empty ingredient list.
FormatInputs ==
    LET FormatInput(kind, input) ==
            [kind |-> kind, input |-> input, output |-> <<>>, applied |-> FALSE]
    IN  {FormatInput("instructions", list) : list \in InstructionLists}
          \cup {FormatInput("cookTime", raw) : raw \in RawNumberValues(480)}
          \cup {FormatInput("servings", raw) : raw \in RawNumberValues(20)}
          \cup {FormatInput("difficulty", raw) : raw \in RawDifficulties}
          \cup {FormatInput("recipe", [raw |-> raw, first |-> first, second |-> second]) :
                   raw \in ValidRawRecipes, first \in FormatRuns, second \in FormatRuns}
          \cup {FormatInput("rejection", [ingredients |-> ings, thrown |-> thrown]) :
                   ings \in {<<>>, <<"bread">>}, thrown \in CaughtErrors}
          \cup {FormatInput("reply", [reply |-> reply, run |-> run]) :
                   reply \in NormalizerReplies, run \in FormatRuns}

InitFormat ==
    /\ now = Epoch
    /\ apiKey = "gsk_live"
    /\ lastRequestTime = 0
    /\ mr = [c \in Calls |-> IdleRequest]
    /\ issued = <<>>
    /\ runs = 0
    /\ gen = IdleCall
    /\ tips = IdleTips
    /\ asyncCall = IdleAsync
    /\ fmt \in FormatInputs
    /\ ui = IdleUi

\* The formatter maps the instructions, and maps its own output once more.
FormatInstructions ==
    /\ fmt.kind = "instructions"
    /\ ~fmt.applied
    /\ fmt' = [fmt EXCEPT !.applied = TRUE,
                          !.output = [once |-> formatInstructions(fmt.input),
                                      again |-> formatInstructions(
                                                   formatInstructions(fmt.input))]]
    /\ UNCHANGED <<throttleVars, recipeVars, tips, asyncCall, ui>>

\* One call of validateCookTime, validateServings or validateDifficulty.
ApplyFormatter(kind, output) ==
    /\ fmt.kind = kind
    /\ ~fmt.applied
    /\ fmt' = [fmt EXCEPT !.applied = TRUE, !.output = output]
    /\ UNCHANGED <<throttleVars, recipeVars, tips, asyncCall, ui>>

ValidateCookTime == ApplyFormatter("cookTime", validateCookTime(fmt.input.text))
ValidateServings == ApplyFormatter("servings", validateServings(fmt.input.text))
ValidateDifficulty == ApplyFormatter("difficulty", validateDifficulty(fmt.input))

\* formatRecipe called twice on the same raw recipe.
FormatRecipeTwice ==
    ApplyFormatter("recipe",
        [first  |-> formatRecipe(fmt.input.raw, fmt.input.first.stamp,
                                 fmt.input.first.time),
         second |-> formatRecipe(fmt.input.raw, fmt.input.second.stamp,
                                 fmt.input.second.time)])

\* OpenAIService.generateRecipe continues with the reply of makeRequest.
NormalizeReply ==
    ApplyFormatter("reply",
        ClientOutcome(ResolvedRequest(fmt.input.reply.text), fmt.input.run.stamp))

\* AIService.generateRecipe rejects: with the add-ingredients message before
\* its try block, or from its catch block with the error thrown inside.
GenerateRecipeRejects ==
    ApplyFormatter("rejection",
        IF Len(fmt.input.ingredients) = 0
        THEN MsgAddIngredients
        ELSE ClassifyError(fmt.input.thrown))

NextFormat ==
    \/ GenerateRecipeRejects
    \/ NormalizeReply
    \/ FormatInstructions
    \/ ValidateCookTime
    \/ ValidateServings
    \/ ValidateDifficulty
    \/ FormatRecipeTwice

SpecFormat == InitFormat /\ [][NextFormat]_vars

(***************************************************************************)
(* The hooks and components of the user interface.  Each is studied alone: *)
(* ui holds its state, the services stay as they are after construction.   *)
(***************************************************************************)
serviceVars ==
    <<now, apiKey, lastRequestTime, mr, issued, runs, gen, tips, asyncCall, fmt>>

\* The state after construction, with the hook or component in `mounted`.
InitUi(mounted) ==
    /\ now = Epoch
    /\ apiKey = "gsk_live"
    /\ lastRequestTime = 0
    /\ mr = [c \in Calls |-> IdleRequest]
    /\ issued = <<>>
    /\ runs = 0
    /\ gen = IdleCall
    /\ tips = IdleTips
    /\ asyncCall = IdleAsync
    /\ fmt = IdleFmt
    /\ ui = mounted

(***************************************************************************)
(* SpecRetry: useRetryWithBackoff.executeWithRetry called once on an       *)
(* operation that settles in any way at each invocation.                   *)
(***************************************************************************)
MaxRetriesLimit == 2

\* What the operation rejects with: Error objects with their message, and
\* values that are no Error (a string, undefined), whose .message is
\* undefined.
RejectionValues ==
    {[isError |-> TRUE, message |-> message] :
        message \in {MsgStatus429, MsgStatus5xx, MsgStatus401, MsgFetchFailed,
                     "HTTP 429", "503 Service Unavailable", "502 Bad Gateway",
                     "500 Internal Server Error"}}
      \cup {[isError |-> FALSE, message |-> Undefined]}

\* The TypeError of reading .includes of undefined.
TypeErrorValue ==
    [isError |-> TRUE,
     message |-> "Cannot read properties of undefined (reading 'includes')"]

isRetryableError(lastError) ==
    \/ Includes(lastError.message, "429")
    \/ Includes(lastError.message, "rate limit")
    \/ Includes(lastError.message, "503")
    \/ Includes(lastError.message, "502")

InitRetry ==
    InitUi([kind |-> "retry", pc |-> "Idle", maxRetries |-> 0, attempt |-> 0,
            invocations |-> 0, isRetrying |-> FALSE, retryCount |-> 0,
            caught |-> <<>>, thrown |-> TypeErrorValue])

\* Entry: setIsRetrying(true), then the first pass of the loop calls the
\* operation and awaits it.
ExecuteWithRetry ==
    /\ ui.pc = "Idle"
    /\ \E maxRetries \in 0..MaxRetriesLimit :
          ui' = [ui EXCEPT !.pc = "AwaitingOperation", !.maxRetries = maxRetries,
                           !.isRetrying = TRUE, !.invocations = 1]
    /\ UNCHANGED serviceVars

\* The awaited operation settles: the rest of the try block, or the catch
\* block up to its throw or to the await of the backoff timer.
OperationSettles ==
    /\ ui.pc = "AwaitingOperation"
    /\ \/ ui' = [ui EXCEPT !.pc = "Resolved", !.retryCount = 0, !.isRetrying = FALSE]
       \/ \E lastError \in RejectionValues :
             ui' = IF ui.attempt = ui.maxRetries
                   THEN [ui EXCEPT !.pc = "Rejected", !.isRetrying = FALSE,
                                   !.caught = Append(@, lastError),
                                   !.thrown = lastError]
                   ELSE IF ~lastError.isError
                   THEN [ui EXCEPT !.pc = "Rejected",
                                   !.caught = Append(@, lastError),
                                   !.thrown = TypeErrorValue]
                   ELSE IF ~isRetryableError(lastError)
                   THEN [ui EXCEPT !.pc = "Rejected", !.isRetrying = FALSE,
                                   !.caught = Append(@, lastError),
                                   !.thrown = lastError]
                   ELSE [ui EXCEPT !.pc = "BackingOff",
                                   !.caught = Append(@, lastError),
                                   !.retryCount = ui.attempt + 1]
    /\ UNCHANGED serviceVars

\* The backoff timer fires: the next pass of the loop calls the operation.
BackoffTimerFires ==
    /\ ui.pc = "BackingOff"
    /\ ui' = [ui EXCEPT !.pc = "AwaitingOperation", !.attempt = @ + 1,
                        !.invocations = @ + 1]
    /\ UNCHANGED serviceVars

NextRetry ==
    \/ ExecuteWithRetry
    \/ OperationSettles
    \/ BackoffTimerFires

SpecRetry == InitRetry /\ [][NextRetry]_vars

(***************************************************************************)
(* SpecChatbot: useChatbot with the ChatbotService singleton.  The hook    *)
(* initializes on mount and may be asked to initialize again at any time;  *)
(* the Chatbase script loads or fails, and once loaded the widget becomes  *)
(* initialized.                                                            *)
(***************************************************************************)
MaxPolls == 3
MaxInitializeCalls == 3

\* continuations: the hook's initialize calls whose await of the service has
\* settled and that have not yet gone on; loaderOutcome: how the service call
\* that loaded the script settled.
InitChatbot ==
    InitUi([kind |-> "chatbot", calls |-> 0,
            isInitialized |-> FALSE, isLoading |-> FALSE,
            scriptInDocument |-> FALSE, script |-> "none",
            chatbaseState |-> "none", loaderOutcome |-> "none",
            continuations |-> 0, continued |-> 0,
            isLoaded |-> FALSE, isError |-> FALSE, error |-> "null",
            timers |-> 0, polls |-> 0])

\* ChatbotService.isReady()
isReady(service) ==
    service.isInitialized /\ service.chatbaseState = "initialized"

\* useChatbot.initialize up to its await, with ChatbotService.initialize up
\* to the await of loadChatbaseScript: the guard, the command queue, and the
\* script element, which is appended unless one with the id exists.
HookInitialize ==
    /\ ui.kind = "chatbot"
    /\ ui.calls < MaxInitializeCalls
    /\ LET reset == [ui EXCEPT !.calls = @ + 1, !.isError = FALSE, !.error = "null"]
       IN  ui' = IF ui.isInitialized \/ ui.isLoading
                 THEN [reset EXCEPT !.continuations = @ + 1]
                 ELSE IF ui.scriptInDocument
                 THEN [reset EXCEPT !.isInitialized = TRUE, !.continuations = @ + 1]
                 ELSE [reset EXCEPT !.isLoading = TRUE, !.scriptInDocument = TRUE,
                                    !.script = "loading"]
    /\ UNCHANGED serviceVars

\* script.onload or script.onerror: loadChatbaseScript settles and
\* ChatbotService.initialize runs to its end (try, catch, finally).
ScriptSettles ==
    /\ ui.kind = "chatbot"
    /\ ui.isLoading
    /\ \E loaded \in BOOLEAN :
          ui' = IF loaded
                THEN [ui EXCEPT !.script = "loaded", !.isInitialized = TRUE,
                                !.isLoading = FALSE, !.loaderOutcome = "resolved",
                                !.continuations = @ + 1]
                ELSE [ui EXCEPT !.script = "failed", !.isLoading = FALSE,
                                !.loaderOutcome = "resolved",
                                !.continuations = @ + 1]
    /\ UNCHANGED serviceVars

\* useChatbot.initialize after its await: checkReady, which sets isLoaded or
\* a timer.
HookContinues ==
    /\ ui.kind = "chatbot"
    /\ ui.continuations > 0
    /\ ui' = IF isReady(ui)
             THEN [ui EXCEPT !.continuations = @ - 1, !.continued = @ + 1,
                             !.isLoaded = TRUE]
             ELSE [ui EXCEPT !.continuations = @ - 1, !.continued = @ + 1,
                             !.timers = @ + 1]
    /\ UNCHANGED serviceVars

\* A timer of checkReady fires: checkReady sets isLoaded or the next timer.
PollTimerFires ==
    /\ ui.kind = "chatbot"
    /\ ui.timers > 0
    /\ ui.polls < MaxPolls
    /\ ui' = IF isReady(ui)
             THEN [ui EXCEPT !.isLoaded = TRUE, !.timers = @ - 1, !.polls = @ + 1]
             ELSE [ui EXCEPT !.polls = @ + 1]
    /\ UNCHANGED serviceVars

\* The loaded Chatbase script reports the state "initialized".
ChatbaseInitializes ==
    /\ ui.kind = "chatbot"
    /\ ui.script = "loaded"
    /\ ui.chatbaseState = "none"
    /\ ui' = [ui EXCEPT !.chatbaseState = "initialized"]
    /\ UNCHANGED serviceVars

NextChatbot ==
    \/ HookInitialize
    \/ ScriptSettles
    \/ HookContinues
    \/ PollTimerFires
    \/ ChatbaseInitializes

SpecChatbot == InitChatbot /\ [][NextChatbot]_vars

(***************************************************************************)
(* SpecStorage: useLocalStorage over one key.  The stored item is a text   *)
(* or absent (Undefined); a value is a list of names, as the ingredient    *)
(* and recipe lists of the application; localStorage may throw at any      *)
(* access.                                                                 *)
(***************************************************************************)
MaxSetValueCalls == 2

StorableValues == {<<>>, <<"rice">>, <<"rice", "egg">>}

\* JSON.stringify of a list of names.
JsonStringify(value) ==
    "[" \o Join([i \in 1..Len(value) |-> "\"" \o value[i] \o "\""], ",") \o "]"

\* JSON.parse of a stored item: the list, or a SyntaxError (ok = FALSE).
JsonParseItem(item) ==
    IF \E value \in StorableValues : JsonStringify(value) = item
    THEN [ok |-> TRUE,
          value |-> CHOOSE value \in StorableValues : JsonStringify(value) = item]
    ELSE [ok |-> FALSE, value |-> <<>>]

\* The items found in localStorage when the hook mounts.
StoredItems == {Undefined, "", "[\"rice\"]", "[\"rice\",\"egg\"]", "[\"rice\"", "[]"}

InitStorage ==
    \E item \in StoredItems : \E initialValue \in {<<>>, <<"rice">>} :
        InitUi([kind |-> "storage", mounted |-> FALSE, item |-> item,
                initialValue |-> initialValue, storedValue |-> <<>>,
                readThrew |-> FALSE, sets |-> 0, lastSet |-> <<>>,
                lastWrite |-> "none", propagated |-> FALSE])

\* The state initializer: getItem and JSON.parse inside try, initialValue
\* for an absent or empty item and from the catch block.
MountHook ==
    /\ ui.kind = "storage"
    /\ ~ui.mounted
    /\ \E getItemThrows \in BOOLEAN :
          LET parsed == JsonParseItem(ui.item)
          IN  ui' = [ui EXCEPT
                       !.mounted = TRUE,
                       !.readThrew = getItemThrows,
                       !.sets = 0,
                       !.lastWrite = "none",
                       !.storedValue =
                           IF getItemThrows THEN ui.initialValue
                           ELSE IF ~Truthy(ui.item) THEN ui.initialValue
                           ELSE IF ~parsed.ok THEN ui.initialValue
                           ELSE parsed.value]
    /\ UNCHANGED serviceVars

\* SetValue writing the item before it updates the state.
SetValueStoresFirst ==
    /\ ui.kind = "storage"
    /\ ui.mounted
    /\ ui.sets < MaxSetValueCalls
    /\ \E value \in StorableValues : \E setItemThrows \in BOOLEAN :
          ui' = IF setItemThrows
                THEN [ui EXCEPT !.sets = @ + 1, !.lastSet = value,
                                !.lastWrite = "failed"]
                ELSE [ui EXCEPT !.sets = @ + 1, !.lastSet = value,
                                !.item = JsonStringify(value),
                                !.storedValue = value,
                                !.lastWrite = "ok"]
    /\ UNCHANGED serviceVars

\* setValue(value): setStoredValue, then setItem with the serialized value;
\* the catch block logs what setItem throws.
SetValue ==
    /\ ui.kind = "storage"
    /\ ui.mounted
    /\ ui.sets < MaxSetValueCalls
    /\ \E value \in StorableValues : \E setItemThrows \in BOOLEAN :
          ui' = IF setItemThrows
                THEN [ui EXCEPT !.sets = @ + 1, !.lastSet = value,
                                !.storedValue = value,
                                !.lastWrite = "failed"]
                ELSE [ui EXCEPT !.sets = @ + 1, !.lastSet = value,
                                !.storedValue = value,
                                !.item = JsonStringify(value),
                                !.lastWrite = "ok"]
    /\ UNCHANGED serviceVars

\* The component unmounts; the item stays in localStorage.
UnmountHook ==
    /\ ui.kind = "storage"
    /\ ui.mounted
    /\ ui.sets > 0
    /\ ui' = [ui EXCEPT !.mounted = FALSE]
    /\ UNCHANGED serviceVars

NextStorage ==
    \/ MountHook
    \/ SetValue
    \/ UnmountHook

SpecStorage == InitStorage /\ [][NextStorage]_vars

(***************************************************************************)
(* SpecOperation: useAIOperation.  execute may be called again before the  *)
(* operation of an earlier call has settled; the operations settle in any  *)
(* order.  ops lists the operations in the order they were started.        *)
(***************************************************************************)
MaxExecutes == 4

InitOperation ==
    InitUi([kind |-> "operation", data |-> "null", isLoading |-> FALSE,
            error |-> "null", ops |-> <<>>])

\* execute up to its await: setState to loading, then the operation starts.
Execute ==
    /\ ui.kind = "operation"
    /\ Len(ui.ops) < MaxExecutes
    /\ ui' = [ui EXCEPT !.data = "null", !.isLoading = TRUE, !.error = "null",
                        !.ops = Append(@, "pending")]
    /\ UNCHANGED serviceVars

\* The operation of call i settles, with its own result or error: the rest
\* of the try block, or the catch block, which rethrows.
ExecuteSettles ==
    /\ ui.kind = "operation"
    /\ \E i \in 1..Len(ui.ops) :
          /\ ui.ops[i] = "pending"
          /\ \/ ui' = [ui EXCEPT !.data = "result " \o ToString(i),
                                 !.isLoading = FALSE,
                                 !.error = "null", !.ops[i] = "resolved"]
             \/ ui' = [ui EXCEPT !.data = "null", !.isLoading = FALSE,
                                 !.error = "error " \o ToString(i),
                                 !.ops[i] = "rejected"]
    /\ UNCHANGED serviceVars

\* reset(), called while no operation is pending.
ResetOperation ==
    /\ ui.kind = "operation"
    /\ \A i \in 1..Len(ui.ops) : ui.ops[i] # "pending"
    /\ ui.isLoading \/ ui.data # "null" \/ ui.error # "null"
    /\ ui' = [ui EXCEPT !.data = "null", !.isLoading = FALSE, !.error = "null"]
    /\ UNCHANGED serviceVars

NextOperation ==
    \/ Execute
    \/ ExecuteSettles
    \/ ResetOperation

SpecOperation == InitOperation /\ [][NextOperation]_vars

(***************************************************************************)
(* SpecSelect: RecipeGenerator.handleRecipeSelect.  The user selects       *)
(* recipes one after the other; each selection asks                        *)
(* AIService.getRecipeEnhancements for the recipe, and the answers arrive  *)
(* in any order.  requests lists the selections in the order made.         *)
(***************************************************************************)
MaxSelections == 3

SelectableRecipes == {"Chicken Rice Bowl", "Toast"}

InitSelect ==
    InitUi([kind |-> "select", selectedRecipe |-> "null", enhancements |-> "null",
            loadingEnhancements |-> FALSE, requests |-> <<>>])

\* handleRecipeSelect up to its await.
HandleRecipeSelect ==
    /\ ui.kind = "select"
    /\ Len(ui.requests) < MaxSelections
    /\ \E recipe \in SelectableRecipes :
          ui' = [ui EXCEPT !.selectedRecipe = recipe, !.enhancements = "null",
                           !.loadingEnhancements = TRUE,
                           !.requests = Append(@, [recipe |-> recipe,
                                                   pending |-> TRUE])]
    /\ UNCHANGED serviceVars

\* getRecipeEnhancements(recipe) resolves (it never rejects) with the tips
\* for that recipe: the rest of the try block and the finally block.
EnhancementsArrive ==
    /\ ui.kind = "select"
    /\ \E i \in 1..Len(ui.requests) :
          /\ ui.requests[i].pending
          /\ ui' = [ui EXCEPT !.enhancements = "tips for " \o ui.requests[i].recipe,
                              !.loadingEnhancements = FALSE,
                              !.requests[i].pending = FALSE]
    /\ UNCHANGED serviceVars

NextSelect ==
    \/ HandleRecipeSelect
    \/ EnhancementsArrive

SpecSelect == InitSelect /\ [][NextSelect]_vars

(***************************************************************************)
(* SpecIndex: the Index page.  recipes is the list useLocalStorage holds   *)
(* under "generated-recipes"; each render's handlers close over the list   *)
(* of that render.  calls lists the generations and deletions in the order *)
(* started, each with the list its handler closed over.  The cloud store   *)
(* resolves or rejects each save and delete, in any order.                 *)
(***************************************************************************)
MaxIndexCalls == 4

InitIndex ==
    InitUi([kind |-> "index", recipes |-> <<>>, calls |-> <<>>])

\* recipes.filter(recipe => recipe.id !== recipeId)
WithoutRecipe(recipes, recipeId) ==
    SelectSeq(recipes, LAMBDA recipe : recipe.id # recipeId)

\* IngredientScanner.generateRecipe up to its await: the button is disabled
\* while isGenerating, and the onGenerateRecipe it will call is the handler
\* of the render current now.
ScannerGenerateRecipe ==
    /\ ui.kind = "index"
    /\ Len(ui.calls) < MaxIndexCalls
    /\ \A i \in 1..Len(ui.calls) : ui.calls[i].phase # "generating"
    /\ ui' = [ui EXCEPT !.calls = Append(@, [op |-> "generate",
                                             id |-> Len(ui.calls) + 1,
                                             recipes |-> ui.recipes,
                                             phase |-> "generating",
                                             cloud |-> "none"])]
    /\ UNCHANGED serviceVars

\* aiService.generateRecipe settles: on a recipe, onGenerateRecipe(recipe)
\* runs handleGenerateRecipe up to await saveToFirebase; on a rejection the
\* scanner's catch reports and the handler is never called.
RecipeGenerated ==
    /\ ui.kind = "index"
    /\ \E i \in 1..Len(ui.calls), resolved \in BOOLEAN :
          /\ ui.calls[i].phase = "generating"
          /\ ui' = [ui EXCEPT !.calls[i].phase =
                                  IF resolved THEN "saving" ELSE "rejected"]
    /\ UNCHANGED serviceVars

\* saveToFirebase settles: the rest of handleGenerateRecipe, either branch
\* calling setRecipes with the new recipe before the closed-over list.
SaveSettles ==
    /\ ui.kind = "index"
    /\ \E i \in 1..Len(ui.calls), saved \in BOOLEAN :
          /\ ui.calls[i].phase = "saving"
          /\ LET recipe == [id |-> ui.calls[i].id,
                            firebaseId |-> IF saved THEN "firebase-id"
                                                    ELSE Undefined]
             IN ui' = [ui EXCEPT !.recipes = <<recipe>> \o ui.calls[i].recipes,
                                 !.calls[i].phase = "settled",
                                 !.calls[i].cloud = IF saved THEN "saved"
                                                             ELSE "failed"]
    /\ UNCHANGED serviceVars

\* handleDeleteRecipe up to its await, for a recipe the page shows:
\* setRecipes with the filtered list, then a cloud delete when the recipe
\* has a firebaseId or a cloud recipe of the same title is found.
HandleDeleteRecipe ==
    /\ ui.kind = "index"
    /\ Len(ui.calls) < MaxIndexCalls
    /\ \E k \in 1..Len(ui.recipes), titleFound \in BOOLEAN :
          LET recipeToDelete == ui.recipes[k]
              awaits == recipeToDelete.firebaseId # Undefined \/ titleFound
          IN ui' = [ui EXCEPT !.recipes = WithoutRecipe(ui.recipes, recipeToDelete.id),
                              !.calls = Append(@, [op |-> "delete",
                                                   id |-> recipeToDelete.id,
                                                   recipes |-> ui.recipes,
                                                   phase |-> IF awaits THEN "deleting"
                                                                        ELSE "settled",
                                                   cloud |-> "none"])]
    /\ UNCHANGED serviceVars

\* deleteFromFirebase settles: a toast either way, the list is not touched.
DeleteSettles ==
    /\ ui.kind = "index"
    /\ \E i \in 1..Len(ui.calls), deleted \in BOOLEAN :
          /\ ui.calls[i].phase = "deleting"
          /\ ui' = [ui EXCEPT !.calls[i].phase = "settled",
                              !.calls[i].cloud = IF deleted THEN "deleted"
                                                            ELSE "failed"]
    /\ UNCHANGED serviceVars

NextIndex ==
    \/ ScannerGenerateRecipe
    \/ RecipeGenerated
    \/ SaveSettles
    \/ HandleDeleteRecipe
    \/ DeleteSettles

SpecIndex == InitIndex /\ [][NextIndex]_vars

(***************************************************************************)
(* SpecTips: the tips panel asks AIService.getRecipeEnhancements for tips  *)
(* on a recipe, MaxRuns times one after the other; the provider answers in *)
(* any way and either tip generator may reject.                            *)
(***************************************************************************)
InitTips == Init

RequestTips ==
    \E recipe \in TipRecipes : \E rejecting \in RejectingGenerators :
        GetRecipeEnhancements(recipe, rejecting)
TipsTimerFires == WaitForRateLimitResume(1) /\ UNCHANGED <<recipeVars, tips, asyncCall, fmt, ui>>
TipsProviderAnswers ==
    /\ tips.pc \in {"AwaitingDynamicTips", "AwaitingGenericTips"}
    /\ \E resp \in TipResponses : FetchSettles(1, resp)
    /\ UNCHANGED <<recipeVars, tips, asyncCall, fmt, ui>>
TipsTimePasses ==
    /\ tips.pc \in {"Idle", "AwaitingDynamicTips", "AwaitingGenericTips"}
    /\ Tick
    /\ UNCHANGED <<recipeVars, tips, asyncCall, fmt, ui>>

NextTips ==
    \/ RequestTips
    \/ TipsTimerFires
    \/ TipsProviderAnswers
    \/ DynamicTipsSettle
    \/ GenericTipsSettle
    \/ NextTipsRequest
    \/ TipsTimePasses

SpecTips == InitTips /\ [][NextTips]_vars

(***************************************************************************)
(* SpecThrottle: one OpenAIService instance, NumCalls makeRequest calls    *)
(* started at any time, each answered by the provider in any way.          *)
(***************************************************************************)
ThrottleResponses ==
    {NetworkFailure, HttpError(429, Undefined), HttpOk("{}"), HttpOk(Undefined)}

InitThrottle ==
    /\ now = Epoch
    /\ apiKey \in ApiKeys
    /\ lastRequestTime = 0
    /\ mr = [c \in Calls |-> IdleRequest]
    /\ issued = <<>>
    /\ runs = 0
    /\ gen = IdleCall
    /\ tips = IdleTips
    /\ asyncCall = IdleAsync
    /\ fmt = IdleFmt
    /\ ui = IdleUi

CallMakeRequest == \E c \in Calls : MakeRequest(c)
TimerFires == \E c \in Calls : WaitForRateLimitResume(c)
ProviderAnswers == \E c \in Calls : \E resp \in ThrottleResponses : FetchSettles(c, resp)

NextThrottle ==
    \/ Tick /\ UNCHANGED <<recipeVars, tips, asyncCall, fmt, ui>>
    \/ CallMakeRequest /\ UNCHANGED <<recipeVars, tips, asyncCall, fmt, ui>>
    \/ TimerFires /\ UNCHANGED <<recipeVars, tips, asyncCall, fmt, ui>>
    \/ ProviderAnswers /\ UNCHANGED <<recipeVars, tips, asyncCall, fmt, ui>>

SpecThrottle == InitThrottle /\ [][NextThrottle]_vars

(***************************************************************************)
(* C1: any two network requests of one OpenAIService instance are at least *)
(* rateLimitDelay apart, under any interleaving of makeRequest calls.      *)
(***************************************************************************)
C1_RequestsSpaced ==
    \A i \in 1..Len(issued) : \A j \in 1..Len(issued) :
        i < j => issued[j] - issued[i] >= rateLimitDelay

\* C22: with an empty credential or one without the expected prefix, every
\* makeRequest call fails with the not-configured error without waiting for
\* the throttle and without a network request, and lastRequestTime keeps its
\* value.
C22_NotConfiguredFailsFirst ==
    ~(Truthy(apiKey) /\ StartsWith(apiKey, "gsk_")) =>
        /\ \A c \in Calls :
              /\ mr[c].pc \in {"idle", "threw"}
              /\ mr[c].pc = "threw" => mr[c].error = MsgNotConfigured
        /\ issued = <<>>
        /\ lastRequestTime = 0

\* A call made with a credential of the wrong prefix has thrown.
C22_Witness ==
    /\ apiKey = "sk-live"
    /\ \E c \in Calls : mr[c].pc = "threw" /\ mr[c].error = MsgNotConfigured

(***************************************************************************)
(* Claims about AIService.generateRecipe, checked under Spec.              *)
(***************************************************************************)

\* C2: when the text provider answers the recipe request with status 429,
\* generateRecipe rejects with the rate-limiting message, not with a
\* connection message and not with the generic wrapper.
C2_RateLimitSurfaces ==
    (gen.pc = "Failed" /\ mr[1].status = 429) => gen.rejection = MsgUserRateLimited

\* C3: every error raised inside the text client's recipe path leaves
\* OpenAIService.generateRecipe with the message it was raised with.
C3_ClientKeepsError ==
    (gen.pc = "Failed" /\ gen.clientError # NoError) => gen.clientError = gen.raised

\* C6: generateRecipe called with an empty ingredient list rejects with the
\* add-ingredients message without invoking the text client or the image
\* client and without changing the throttle timestamp.
C6_EmptyListShortCircuits ==
    [][(gen.pc = "Idle" /\ gen'.pc # "Idle" /\ Len(gen'.ingredients) = 0)
        => /\ gen'.pc = "Failed"
           /\ gen'.rejection = MsgAddIngredients
           /\ gen'.textCalls = 0
           /\ gen'.imageCalls = 0
           /\ UNCHANGED <<lastRequestTime, issued, mr>>]_vars

\* A second call, made with an empty list after a first call has used the
\* network, has been rejected at input validation.
C6_Witness ==
    /\ gen.pc = "Failed"
    /\ gen.failedFrom = "ValidatingInput"
    /\ Len(gen.ingredients) = 0
    /\ lastRequestTime > 0

\* C7: once formatting has succeeded the call ends in Done: the image
\* enhancement never moves it to Failed, and when the image client throws
\* the recipe keeps the image the formatter assigned.
C7_ImageFailureKeepsFormatterImage ==
    /\ gen.pc = "Failed" => gen.failedFrom # "AttemptingImageEnhancement"
    /\ (gen.pc = "Done" /\ gen.imageClientThrew /\ ~Truthy(gen.openaiRecipe.image))
          => gen.recipe.image = gen.formatterImage

\* C8: within one call the steps occur strictly in order: response, then
\* normalization and validation, then formatting, then image enhancement,
\* then resolution; a rejection ends the sequence wherever it occurs.
StepOrder ==
    <<"request", "response", "normalize", "validated", "format", "formatted",
      "image-start", "image-end", "resolve">>

C8_StepsInOrder ==
    LET done == IF Len(gen.steps) > 0 /\ gen.steps[Len(gen.steps)] = "reject"
                THEN SubSeq(gen.steps, 1, Len(gen.steps) - 1)
                ELSE gen.steps
    IN  /\ Len(done) <= Len(StepOrder)
        /\ done = SubSeq(StepOrder, 1, Len(done))
        /\ gen.pc = "Done" <=> done = StepOrder

\* A call has gone through every step and resolved.
C8_Witness == gen.pc = "Done" /\ gen.steps = StepOrder

\* C9: a resolved call returns a Recipe with a non-empty title, at least one
\* ingredient and at least one instruction, and the reply it came from had a
\* title, ingredients and instructions.
C9_ResolvedRecipeComplete ==
    gen.pc = "Done" =>
        /\ gen.recipe.title # ""
        /\ Len(gen.recipe.ingredients) >= 1
        /\ Len(gen.recipe.instructions) >= 1
        /\ Truthy(gen.openaiRecipe.title)
        /\ Len(gen.openaiRecipe.ingredients) >= 1
        /\ Len(gen.openaiRecipe.instructions) >= 1

\* C10: a reply missing its title, one with empty ingredients and one with
\* empty instructions are rejected with the missing-title, the
\* missing-ingredients and the missing-instructions error respectively.
C10_DistinctSchemaErrors ==
    (gen.pc = "Failed" /\ mr[1].pc = "returned") =>
        /\ mr[1].content = DocNoTitle => Includes(gen.rejection, MsgMissingTitle)
        /\ mr[1].content = DocNoIngredients => Includes(gen.rejection, MsgMissingIngredients)
        /\ mr[1].content = DocNoInstructions
              => Includes(gen.rejection, MsgMissingInstructions)

\* C13: the Recipe returned by generateRecipe(ingredients, {maxTime,
\* difficulty, servings}) has cookTime <= maxTime, the requested difficulty
\* and the requested servings.
C13_RecipeMeetsConstraints ==
    gen.pc = "Done" =>
        /\ gen.recipe.cookTime <= gen.options.maxTime
        /\ gen.recipe.difficulty = gen.options.difficulty
        /\ gen.recipe.servings = gen.options.servings

(***************************************************************************)
(* Claims about AIService.getRecipeEnhancements, checked under SpecTips.   *)
(***************************************************************************)

\* C4: whatever the tip generators do, both rejecting included,
\* getRecipeEnhancements resolves with cookingTips a non-null tips object,
\* and the tips panel shows no error.
C4_TipsAlwaysDelivered ==
    tips.pc = "Settled" => (tips.cookingTips.type = "object" /\ tips.toast # "error")

\* C5: when recipe-specific tip generation fails, generateCookingTips is
\* invoked next, and hardcoded tips are produced only after that generic
\* attempt.
HardcodedGenerators == {"generateRecipeSpecificFallback", "generateSimpleTips"}

C5_GenericBeforeHardcoded ==
    (tips.pc = "Settled" /\ tips.dynamicFailed) =>
        \E i \in 1..Len(tips.invoked) :
            /\ tips.invoked[i] = "generateCookingTips"
            /\ \A j \in 1..Len(tips.invoked) :
                   tips.invoked[j] \in HardcodedGenerators => j > i

\* C21: a reply with a title, ingredients and instructions but without a
\* description makes generateRecipe resolve, with the default description;
\* the missing description never causes a rejection.
C21_DescriptionDefaulted ==
    (gen.pc \in {"Done", "Failed"} /\ mr[1].pc = "returned"
        /\ mr[1].content = DocNoDescription) =>
        /\ gen.pc = "Done"
        /\ gen.recipe.description =
              "A delicious AI-generated recipe perfect for your kitchen."

\* C23: one call of generateRecipe issues at most one request to the text
\* provider; after a 429 or 5xx response the call rejects and no further
\* request is made for it.
C23_NoAutomaticRetry ==
    /\ Len(issued) <= runs
    /\ gen.textCalls <= 1
    /\ (gen.pc # "Idle" /\ mr[1].status \in {429, 500}) =>
          /\ mr[1].pc = "threw"
          /\ gen.pc \in {"AwaitingProviderResponse", "Failed"}

\* A call answered with status 429 has rejected after its single request.
C23_Witness ==
    /\ gen.pc = "Failed"
    /\ mr[1].status = 429
    /\ Truthy(gen.rejection)
    /\ Len(issued) = 1

(***************************************************************************)
(* Claims about AIService.generateRecipeWithAsyncImage, checked under      *)
(* SpecAsync.                                                              *)
(***************************************************************************)
AsyncReturnedStates == {"Returned", "TimerSet", "AwaitingImage", "CallbackInvoked"}

\* C11: generateRecipeWithAsyncImage returns the recipe with the image the
\* formatter assigned and without any image-generation attempt having been
\* made before the return.
C11_ReturnsBeforeImageWork ==
    asyncCall.pc \in AsyncReturnedStates =>
        /\ asyncCall.imageCallsAtReturn = 0
        /\ asyncCall.returned.image = gen.formatterImage

C14_ImageNeverEmpty ==
    /\ gen.pc = "Done" => Truthy(gen.recipe.image)
    /\ asyncCall.pc \in AsyncReturnedStates => Truthy(asyncCall.returned.image)
    /\ \A i \in 1..Len(asyncCall.callbacks) : Truthy(asyncCall.callbacks[i].imageUrl)

\* A recipe was returned and the callback invoked, the image client having
\* thrown in both attempts.
C14_Witness ==
    /\ asyncCall.pc = "CallbackInvoked"
    /\ asyncCall.clientThrew
    /\ gen.imageClientThrew
    /\ Len(asyncCall.callbacks) = 1

\* C30: for each call of generateRecipeWithAsyncImage that supplies
\* onImageGenerated the callback is invoked at most once, whatever the image
\* generator and the callback do, the callback throwing included.
C30_CallbackAtMostOnce ==
    Len(asyncCall.callbacks) <= 1

(***************************************************************************)
(* Claims about the formatter's functions, checked under SpecFormat.       *)
(***************************************************************************)

\* C15: the formatter's instruction at index i is "Step i: " followed by a
\* text that carries no "Step k:" prefix of its own, whatever prefix the
\* input carried, and formatting the formatter's output again returns it
\* unchanged.
C15_OneStepPrefix ==
    (fmt.kind = "instructions" /\ fmt.applied) =>
        /\ Len(fmt.output.once) = Len(fmt.input)
        /\ \A i \in 1..Len(fmt.input) :
              LET prefix == "Step " \o ToString(i) \o ": "
                  text   == fmt.output.once[i]
                  rest   == SubSeq(text, Len(prefix) + 1, Len(text))
              IN  /\ StartsWith(text, prefix)
                  /\ StripStepPrefix(rest) = rest
        /\ fmt.output.again = fmt.output.once

\* C16: the formatter's cookTime is an integer in [1,480] and its servings an
\* integer in [1,20]; a raw value that is no number or is below 1 yields 30
\* and 4, and a raw value above the maximum yields the maximum.
C16_NumbersClamped ==
    /\ (fmt.kind = "cookTime" /\ fmt.applied) =>
          /\ fmt.output \in 1..480
          /\ fmt.input.magnitude \in {"nan", "below"} => fmt.output = 30
          /\ fmt.input.magnitude = "above" => fmt.output = 480
    /\ (fmt.kind = "servings" /\ fmt.applied) =>
          /\ fmt.output \in 1..20
          /\ fmt.input.magnitude \in {"nan", "below"} => fmt.output = 4
          /\ fmt.input.magnitude = "above" => fmt.output = 20

\* C17: the formatter's difficulty is one of easy, medium, hard: the raw
\* value lower-cased when that is one of the three, medium for every other
\* raw value, an absent one included.
C17_DifficultyDefaults ==
    LET Difficulties == {"easy", "medium", "hard"}
    IN  (fmt.kind = "difficulty" /\ fmt.applied) =>
            /\ fmt.output \in Difficulties
            /\ \A d \in Difficulties : toLowerCase(fmt.input) = d => fmt.output = d
            /\ (\A d \in Difficulties : toLowerCase(fmt.input) # d)
                  => fmt.output = "medium"

\* A raw difficulty written in capitals has been accepted as hard.
C17_Witness ==
    fmt.kind = "difficulty" /\ fmt.applied /\ fmt.input = "HARD" /\ fmt.output = "hard"

\* C18: two formattings of the same accepted raw recipe agree in title,
\* description, image, cookTime, difficulty, servings, ingredients,
\* instructions and dietaryTags, whatever id and time each call generates.
C18_FormatIsFunctionOfInput ==
    (fmt.kind = "recipe" /\ fmt.applied) =>
        LET a == fmt.output.first
            b == fmt.output.second
        IN  /\ a.title = b.title
            /\ a.description = b.description
            /\ a.image = b.image
            /\ a.cookTime = b.cookTime
            /\ a.difficulty = b.difficulty
            /\ a.servings = b.servings
            /\ a.ingredients = b.ingredients
            /\ a.instructions = b.instructions
            /\ a.dietaryTags = b.dietaryTags

\* Two formattings of a raw recipe without id and image, made at different
\* times: they differ in id and createdAt and carry the fallback picture.
C18_Witness ==
    /\ fmt.kind = "recipe"
    /\ fmt.applied
    /\ fmt.output.first.id # fmt.output.second.id
    /\ fmt.output.first.createdAt # fmt.output.second.createdAt
    /\ ~Truthy(fmt.input.raw.image)

\* C19: for a reply made of optional commentary, one JSON object, fenced or
\* not, and optional commentary after the closing fence, the normalizer
\* extracts and parses exactly that object; for a reply without any brace it
\* throws the invalid-format error.
C19_NormalizerExtractsObject ==
    (fmt.kind = "reply" /\ fmt.applied) =>
        IF fmt.input.reply.object = ""
        THEN fmt.output.raised = MsgInvalidFormat
        ELSE /\ fmt.output.raised = NoError
             /\ LET object == JsonParse(fmt.input.reply.object).value
                IN  \A field \in (DOMAIN object) \ {"id"} :
                        fmt.output.recipe[field] = object[field]

\* C20: every rejection of AIService.generateRecipe carries the
\* add-ingredients message, or the category message of the first keyword
\* test, in the order not configured, rate limited, invalid key, connection,
\* incomplete response, that the caught error's message passes, or "Recipe
\* generation failed: " followed by that message unchanged when it passes
\* none.
C20_RejectionFromClosedSet ==
    LET CategoryMessages ==
            <<MsgUserNotConfigured, MsgUserRateLimited, MsgUserInvalidKey,
              MsgUserConnection, MsgUserIncomplete>>
        KeywordTest(category, message) ==
            LET Has(kw) == Includes(toLowerCase(message), kw)
            IN  CASE category = 1 -> Has("not configured")
                  [] category = 2 -> Has("429") \/ Has("rate limit")
                  [] category = 3 -> Has("401") \/ Has("unauthorized")
                                        \/ (Has("invalid") /\ Has("key"))
                  [] category = 4 -> Has("network") \/ Has("fetch") \/ Has("cors")
                                        \/ Has("blocked")
                  [] category = 5 -> Has("empty") \/ Has("incomplete")
    IN  (fmt.kind = "rejection" /\ fmt.applied) =>
            LET thrown == fmt.input.thrown
                passed == {c \in 1..5 : KeywordTest(c, thrown)}
            IN  IF Len(fmt.input.ingredients) = 0
                THEN fmt.output = MsgAddIngredients
                ELSE IF passed = {}
                THEN fmt.output = MsgGenericPrefix \o thrown
                ELSE \E first \in passed :
                        /\ \A c \in passed : first <= c
                        /\ fmt.output = CategoryMessages[first]

\* An error whose message passes the rate-limit and the invalid-key test has
\* been rejected as rate limited.
C20_Witness ==
    /\ fmt.kind = "rejection"
    /\ fmt.applied
    /\ Len(fmt.input.ingredients) > 0
    /\ fmt.input.thrown = "HTTP 401: Rate Limit exceeded"
    /\ fmt.output = MsgUserRateLimited

(***************************************************************************)
(* Claims about the hooks and components of the user interface.            *)
(***************************************************************************)

\* C24: executeWithRetry invokes the operation at most maxRetries + 1 times;
\* it retries only after an error whose message names a rate limit (429) or
\* a server error, rethrows any other error at once and the last error when
\* the attempts are exhausted, and isRetrying is false once it has settled.
C24_RetryBounded ==
    LET Retryable(e) ==
            e.isError /\ \E kw \in {"429", "rate limit", "503", "502"} :
                            Includes(e.message, kw)
    IN  ui.kind = "retry" =>
            /\ ui.invocations <= ui.maxRetries + 1
            /\ \A i \in 1..(ui.invocations - 1) : Retryable(ui.caught[i])
            /\ ui.pc \in {"Resolved", "Rejected"} => ~ui.isRetrying
            /\ ui.pc = "Rejected" =>
                  /\ ui.thrown = ui.caught[Len(ui.caught)]
                  /\ \/ ~Retryable(ui.thrown)
                     \/ ui.invocations = ui.maxRetries + 1

\* C25: when the Chatbase script fails to load, ChatbotService.initialize
\* rejects, and useChatbot.initialize ends with isError true and error set
\* instead of waiting with isLoaded and isError both false.
C25_ScriptFailureSurfaces ==
    (ui.kind = "chatbot" /\ ui.script = "failed") =>
        /\ ui.loaderOutcome = "rejected"
        /\ (ui.calls = 1 /\ ui.continued = 1) => (ui.isError /\ ui.error # "null")

\* C26: when reading or parsing the stored item fails the hook's value is
\* initialValue; when the write of setValue(v) fails the value in memory is
\* v all the same and no error reaches the caller; after a successful
\* setValue(v) the stored item and the value in memory are both v.
C26_DegradesToMemory ==
    (ui.kind = "storage" /\ ui.mounted) =>
        /\ (ui.sets = 0 /\ (ui.readThrew \/ (Truthy(ui.item) /\ ~JsonParseItem(ui.item).ok)))
              => ui.storedValue = ui.initialValue
        /\ ui.lastWrite = "failed" => (ui.storedValue = ui.lastSet /\ ~ui.propagated)
        /\ ui.lastWrite = "ok" =>
              /\ ui.storedValue = ui.lastSet
              /\ JsonParseItem(ui.item).ok
              /\ JsonParseItem(ui.item).value = ui.lastSet

\* A write has failed after a corrupt item was read, and the value in memory
\* is the one just set.
C26_Witness ==
    /\ ui.kind = "storage"
    /\ ui.mounted
    /\ ui.lastWrite = "failed"
    /\ ui.item = "[\"rice\""
    /\ ui.storedValue = <<"rice", "egg">>
    /\ ui.initialValue = <<>>

\* C27: in useAIOperation, under any interleaving of execute calls,
\* isLoading is true whenever a started operation has not settled, and once
\* all have settled data and error show the outcome of the operation that
\* was started last.
C27_LoadingCoversPending ==
    (ui.kind = "operation" /\ Len(ui.ops) > 0) =>
        LET last    == Len(ui.ops)
            pending == \E i \in 1..last : ui.ops[i] = "pending"
        IN  /\ pending => ui.isLoading
            /\ (~pending /\ ui.ops[last] = "resolved" /\ ui.data # "null") =>
                  ui.data = "result " \o ToString(last)
            /\ (~pending /\ ui.ops[last] = "rejected" /\ ui.error # "null") =>
                  ui.error = "error " \o ToString(last)
            /\ (~pending /\ ui.ops[last] = "resolved") => ui.error = "null"
            /\ (~pending /\ ui.ops[last] = "rejected") => ui.data = "null"

\* C28: in RecipeGenerator, once no enhancement request is pending, the
\* enhancements in state are those requested for the recipe selected now.
C28_EnhancementsMatchSelection ==
    (/\ ui.kind = "select"
     /\ Len(ui.requests) > 0
     /\ \A i \in 1..Len(ui.requests) : ~ui.requests[i].pending) =>
        ui.enhancements = "tips for " \o ui.selectedRecipe

\* C29: in Index, once every handleGenerateRecipe and handleDeleteRecipe call
\* has settled, the local recipe list holds exactly the generated recipes
\* that were not deleted, whether or not their cloud save succeeded.
C29_ListMatchesCalls ==
    (/\ ui.kind = "index"
     /\ \A i \in 1..Len(ui.calls) : ui.calls[i].phase \in {"settled", "rejected"}) =>
        LET settled(op) == {ui.calls[i].id : i \in {j \in 1..Len(ui.calls) :
                                /\ ui.calls[j].op = op
                                /\ ui.calls[j].phase = "settled"}}
        IN {ui.recipes[k].id : k \in 1..Len(ui.recipes)} =
               settled("generate") \ settled("delete")

====
